---- MODULE Spec2Model ----
(***************************************************************************)
(* DAB+ superframe parser (gst/src/gstdabplusparse.c): the parser element  *)
(* state, its handle_frame vmethod with everything it calls, and the byte  *)
(* stream the streaming host feeds it.                                     *)
(*                                                                         *)
(* Intermediate results are handed on as operator arguments rather than    *)
(* named in LET, so that each is computed once.                            *)
(***************************************************************************)
EXTENDS Integers, Sequences, FiniteSets, TLC

(***************************************************************************)
(* Program constants (gstdabplusparse.c:48-56).                            *)
(***************************************************************************)
RS_CODE_SIZE == 10
SUPERFRAME_MIN_SIZE == 120
N_MAX == 216
SUPERFRAME_MAX_SIZE == SUPERFRAME_MIN_SIZE * N_MAX
FIRECODE_LENGTH == 11
ADTS_HEADER_LENGTH == 7
G_MAXUINT8 == 255

(***************************************************************************)
(* A guint is held as the 32-bit two's complement integer that has the     *)
(* same bits (the integers of the model checker are 32 bits wide): a value *)
(* v >= 2^31 is held as v - 2^32.  For operands whose difference is below  *)
(* 2^31 in magnitude, subtraction modulo 2^32 is then plain subtraction,   *)
(* and a negative result stands for the guint 2^32 + result.               *)
(***************************************************************************)
G_MAXUINT32 == -1
guint_sub(a, b) == a - b
guint_is_below_2_31(x) == x >= 0

(***************************************************************************)
(* The C bit operators on non-negative integers, four bits at a time.      *)
(***************************************************************************)
U8(x) == x % 256
U16(x) == x % 65536
Shl(x, n) == x * (2 ^ n)
Shr(x, n) == x \div (2 ^ n)

RECURSIVE AndBits(_, _, _)
AndBits(a, b, n) ==
  IF n = 0 THEN 0
  ELSE (IF a % 2 = 1 /\ b % 2 = 1 THEN 1 ELSE 0) + 2 * AndBits(a \div 2, b \div 2, n - 1)

RECURSIVE OrBits(_, _, _)
OrBits(a, b, n) ==
  IF n = 0 THEN 0
  ELSE (IF a % 2 = 1 \/ b % 2 = 1 THEN 1 ELSE 0) + 2 * OrBits(a \div 2, b \div 2, n - 1)

RECURSIVE XorBits(_, _, _)
XorBits(a, b, n) ==
  IF n = 0 THEN 0
  ELSE (IF a % 2 # b % 2 THEN 1 ELSE 0) + 2 * XorBits(a \div 2, b \div 2, n - 1)

AndNibble == [a \in 0..15 |-> [b \in 0..15 |-> AndBits(a, b, 4)]]
OrNibble == [a \in 0..15 |-> [b \in 0..15 |-> OrBits(a, b, 4)]]
XorNibble == [a \in 0..15 |-> [b \in 0..15 |-> XorBits(a, b, 4)]]

RECURSIVE BitAnd(_, _)
BitAnd(a, b) ==
  IF a = 0 \/ b = 0 THEN 0
  ELSE AndNibble[a % 16][b % 16] + 16 * BitAnd(a \div 16, b \div 16)

RECURSIVE BitOr(_, _)
BitOr(a, b) ==
  IF a = 0 THEN b
  ELSE IF b = 0 THEN a
  ELSE OrNibble[a % 16][b % 16] + 16 * BitOr(a \div 16, b \div 16)

RECURSIVE BitXor(_, _)
BitXor(a, b) ==
  IF a = 0 THEN b
  ELSE IF b = 0 THEN a
  ELSE XorNibble[a % 16][b % 16] + 16 * BitXor(a \div 16, b \div 16)

Bool(x) == IF x # 0 THEN 1 ELSE 0      \* the C idiom !!(x)

(***************************************************************************)
(* gst_dabplusparse_firecode_crc_table, index 0..255 stored at 1..256.     *)
(***************************************************************************)
gst_dabplusparse_firecode_crc_table == <<
    0, 30767, 61534, 34929, 39059, 57532, 26829, 4322,
    18697, 12582, 47447, 49528, 53658, 43445, 8644, 23019,
    37394, 59965, 25164, 6755, 2689, 29358, 64223, 33520,
    56091, 41780, 11077, 21354, 17288, 15271, 46038, 52217,
    23563, 9252, 44117, 54394, 50328, 48311, 13510, 19689,
    5378, 27949, 58716, 40307, 36241, 62910, 32207, 1504,
    52761, 46646, 15943, 18024, 22154, 11941, 42708, 57083,
    34576, 65343, 30542, 3937, 8067, 26540, 61405, 38898,
    47126, 49209, 18504, 12391, 8325, 22698, 53467, 43252,
    61727, 35120, 321, 31086, 27020, 4515, 39378, 57853,
    10756, 21035, 55898, 41589, 45719, 51896, 17097, 15078,
    25357, 6946, 37715, 60284, 64414, 33713, 3008, 29679,
    58397, 39986, 5187, 27756, 31886, 1185, 36048, 62719,
    44308, 54587, 23882, 9573, 13703, 19880, 50649, 48630,
    30223, 3616, 34385, 65150, 61084, 38579, 7874, 26349,
    16134, 18217, 53080, 46967, 42901, 57274, 22475, 12260,
    2051, 28716, 63581, 32882, 37008, 59583, 24782, 6369,
    16650, 14629, 45396, 51579, 55705, 41398, 10695, 20968,
    39441, 57918, 27215, 4704, 642, 31405, 62172, 35571,
    54040, 43831, 9030, 23401, 19339, 13220, 48085, 50170,
    21512, 11303, 42070, 56441, 52379, 46260, 15557, 17642,
    7425, 25902, 60767, 38256, 34194, 64957, 30156, 3555,
    50714, 48693, 13892, 20075, 24201, 9894, 44759, 55032,
    36627, 63292, 32589, 1890, 6016, 28591, 59358, 40945,
    45077, 51258, 16459, 14436, 10374, 20649, 55512, 41207,
    63772, 33075, 2370, 29037, 24975, 6560, 37329, 59902,
    8711, 23080, 53849, 43638, 47764, 49851, 19146, 13029,
    27406, 4897, 39760, 58239, 62365, 35762, 963, 31724,
    60446, 37937, 7232, 25711, 29837, 3234, 34003, 64764,
    42263, 56632, 21833, 11622, 15748, 17835, 52698, 46581,
    32268, 1571, 36434, 63101, 59039, 40624, 5825, 28398,
    14085, 20266, 51035, 49012, 44950, 55225, 24520, 10215
  >>

(***************************************************************************)
(* gst_dabplusparse_check_firecode: data is the sequence of the 11 bytes   *)
(* data[0..10] (C index k is TLA+ index k+1).                              *)
(***************************************************************************)
\* a loop that leaves out data[10]
RECURSIVE C23_firecode_loop_skips_last(_, _, _)
C23_firecode_loop_skips_last(data, i, firecode) ==
  IF i >= FIRECODE_LENGTH - 1 THEN firecode
  ELSE C23_firecode_loop_skips_last(data, i + 1,
         U16(BitXor(Shl(firecode, 8),
                    gst_dabplusparse_firecode_crc_table[
                      U8(BitXor(Shr(firecode, 8), data[i + 1])) + 1])))

RECURSIVE firecode_loop(_, _, _)
firecode_loop(data, i, firecode) ==
  IF i >= FIRECODE_LENGTH THEN firecode
  ELSE firecode_loop(data, i + 1,
         U16(BitXor(Shl(firecode, 8),
                    gst_dabplusparse_firecode_crc_table[
                      U8(BitXor(Shr(firecode, 8), data[i + 1])) + 1])))

\* the verdict without the test at lines 336-337
C11_verdict_accepts_zero(header_firecode, firecode) == header_firecode = firecode

\* gstdabplusparse.c:332-339
firecode_verdict(header_firecode, firecode) ==
  IF header_firecode # firecode THEN FALSE
  ELSE IF firecode = 0 THEN FALSE
  ELSE TRUE

check_firecode(data) ==
  firecode_verdict(BitOr(Shl(data[1], 8), Shl(data[2], 0)), firecode_loop(data, 2, 0))

(***************************************************************************)
(* gst_dabplusparse_parse_superframe_header.  The result is [ok, hdr];     *)
(* hdr.au holds the entries 0..num_aus-1 of the C array at 1..num_aus (the *)
(* entries at and above num_aus are neither written nor read).  Every      *)
(* field is a guint, so the sizes are differences modulo 2^32.             *)
(***************************************************************************)
\* the table with the two sbr rows exchanged
C12_num_aus_rows_exchanged(sbr_flag, dac_rate) ==
  IF sbr_flag # 0
  THEN (IF dac_rate = 0 THEN 3 ELSE 2)
  ELSE (IF dac_rate = 0 THEN 4 ELSE 6)

\* gstdabplusparse.c:361-377
num_aus_of(sbr_flag, dac_rate) ==
  IF sbr_flag # 0
  THEN (IF dac_rate = 0 THEN 2 ELSE 3)
  ELSE (IF dac_rate = 0 THEN 4 ELSE 6)

au0_start_of(sbr_flag, dac_rate) ==
  IF sbr_flag # 0
  THEN (IF dac_rate = 0 THEN 5 ELSE 6)
  ELSE (IF dac_rate = 0 THEN 8 ELSE 11)

\* the decoding without the masks 0xf00 at lines 381 and 385
C14_au_start_unmasked(data, k) ==
  CASE k = 1 -> BitOr(Shl(data[4], 4), Shr(data[5], 4))
    [] k = 2 -> BitOr(Shl(data[5], 8), data[6])
    [] k = 3 -> BitOr(Shl(data[7], 4), Shr(data[8], 4))
    [] k = 4 -> BitOr(Shl(data[8], 8), data[9])
    [] k = 5 -> BitOr(Shl(data[10], 4), Shr(data[11], 4))

\* gstdabplusparse.c:379-389: au[k].start for k in 1..5
au_start(data, k) ==
  CASE k = 1 -> BitOr(Shl(data[4], 4), Shr(data[5], 4))
    [] k = 2 -> BitOr(BitAnd(Shl(data[5], 8), 3840), data[6])
    [] k = 3 -> BitOr(Shl(data[7], 4), Shr(data[8], 4))
    [] k = 4 -> BitOr(BitAnd(Shl(data[8], 8), 3840), data[9])
    [] k = 5 -> BitOr(Shl(data[10], 4), Shr(data[11], 4))

\* gstdabplusparse.c:397
aus_end_of(framesize) ==
  framesize - (framesize \div SUPERFRAME_MIN_SIZE) * RS_CODE_SIZE

\* the sizes with the 2 bytes after the last AU counted into it
C13_au_size_last_with_crc(starts, num_aus, i, framesize) ==
  IF i < num_aus - 1
  THEN guint_sub(guint_sub(starts[i + 2], starts[i + 1]), 2)
  ELSE guint_sub(aus_end_of(framesize), starts[i + 1])

\* gstdabplusparse.c:394-398: au[i].size, starts[k] being au[k-1].start
au_size(starts, num_aus, i, framesize) ==
  IF i < num_aus - 1
  THEN guint_sub(guint_sub(starts[i + 2], starts[i + 1]), 2)
  ELSE guint_sub(guint_sub(aus_end_of(framesize), starts[i + 1]), 2)

parsed_header(data, framesize, dac_rate, sbr_flag, num_aus, starts) ==
  [ok |-> TRUE,
   hdr |-> [header_firecode |-> BitOr(Shl(data[1], 8), Shl(data[2], 0)),
            rfa |-> Bool(BitAnd(data[3], 128)),
            dac_rate |-> dac_rate,
            sbr_flag |-> sbr_flag,
            aac_channel_mode |-> Bool(BitAnd(data[3], 16)),
            ps_flag |-> Bool(BitAnd(data[3], 8)),
            mpeg_surround_config |-> BitAnd(data[3], 7),
            num_aus |-> num_aus,
            au |-> [k \in 1..num_aus |->
                      [start |-> starts[k],
                       size |-> au_size(starts, num_aus, k - 1, framesize)]]]]

parse_au_table(data, framesize, dac_rate, sbr_flag, num_aus) ==
  IF num_aus \notin {2, 3, 4, 6}
  THEN [ok |-> FALSE]
  ELSE parsed_header(data, framesize, dac_rate, sbr_flag, num_aus,
         [k \in 1..num_aus |->
            IF k = 1 THEN au0_start_of(sbr_flag, dac_rate) ELSE au_start(data, k - 1)])

parse_flags(data, framesize, dac_rate, sbr_flag) ==
  parse_au_table(data, framesize, dac_rate, sbr_flag, num_aus_of(sbr_flag, dac_rate))

parse_superframe_header(data, framesize) ==
  parse_flags(data, framesize, Bool(BitAnd(data[3], 64)), Bool(BitAnd(data[3], 32)))

(***************************************************************************)
(* The ADTS helpers of gst_dabplusparse_prepend_adts_headers.              *)
(***************************************************************************)
get_audio_profile_object_type(caps) ==
  IF caps.profile = "main" THEN 0
  ELSE IF caps.profile = "lc" THEN 1
  ELSE IF caps.profile = "ssr" THEN 2
  ELSE IF caps.profile = "ltp" THEN 3
  ELSE G_MAXUINT8

\* a lookup that takes 0 channels for a channel configuration
C16_channel_configuration_from_0(num_channels) ==
  IF num_channels >= 0 /\ num_channels <= 6 THEN num_channels
  ELSE IF num_channels = 8 THEN 7
  ELSE G_MAXUINT8

get_audio_channel_configuration(num_channels) ==
  IF num_channels >= 1 /\ num_channels <= 6 THEN num_channels
  ELSE IF num_channels = 8 THEN 7
  ELSE G_MAXUINT8

get_audio_sampling_frequency_index(sample_rate) ==
  CASE sample_rate = 96000 -> 0
    [] sample_rate = 88200 -> 1
    [] sample_rate = 64000 -> 2
    [] sample_rate = 48000 -> 3
    [] sample_rate = 44100 -> 4
    [] sample_rate = 32000 -> 5
    [] sample_rate = 24000 -> 6
    [] sample_rate = 22050 -> 7
    [] sample_rate = 16000 -> 8
    [] sample_rate = 12000 -> 9
    [] sample_rate = 11025 -> 10
    [] sample_rate = 8000 -> 11
    [] sample_rate = 7350 -> 12
    [] OTHER -> G_MAXUINT8

\* a test that refuses only frame_size > 0x4000
C18_frame_size_ok_up_to_0x4000(frame_size) == frame_size <= 16384

\* frame_size >= 0x4000 is refused (gstdabplusparse.c:639)
adts_frame_size_ok(frame_size) == frame_size < 16384

\* the header with the high bit of the channel configuration in bit 0 of byte 2
C17_adts_channel_bit_0(profile, sampling_frequency_index, channel_configuration, frame_size) ==
  << 255,
     U8(BitOr(BitOr(240, Shl(0, 3)), 1)),
     U8(BitOr(BitOr(BitOr(Shl(profile, 6), Shl(sampling_frequency_index, 2)), 2),
              Shr(BitAnd(channel_configuration, 4), 2))),
     U8(BitOr(BitOr(Shl(BitAnd(channel_configuration, 3), 6), 48), U8(Shr(frame_size, 11)))),
     U8(BitAnd(Shr(frame_size, 3), 255)),
     U8(Shl(BitAnd(frame_size, 7), 5) + 31),
     252 >>

\* the seven bytes written at gstdabplusparse.c:647-655, each a guint8
adts_header_bytes(profile, sampling_frequency_index, channel_configuration, frame_size) ==
  << 255,
     U8(BitOr(BitOr(240, Shl(0, 3)), 1)),
     U8(BitOr(BitOr(BitOr(Shl(profile, 6), Shl(sampling_frequency_index, 2)), 2),
              BitAnd(channel_configuration, 4))),
     U8(BitOr(BitOr(Shl(BitAnd(channel_configuration, 3), 6), 48), U8(Shr(frame_size, 11)))),
     U8(BitAnd(Shr(frame_size, 3), 255)),
     U8(Shl(BitAnd(frame_size, 7), 5) + 31),
     252 >>

\* gstdabplusparse.c:617-661 with the three lookups done
adts_checked(profile, channel_configuration, sampling_frequency_index, frame_size) ==
  IF profile = G_MAXUINT8 THEN [ok |-> FALSE, reason |-> "profile", header |-> <<>>]
  ELSE IF channel_configuration = G_MAXUINT8
  THEN [ok |-> FALSE, reason |-> "channels", header |-> <<>>]
  ELSE IF sampling_frequency_index = G_MAXUINT8
  THEN [ok |-> FALSE, reason |-> "rate", header |-> <<>>]
  ELSE IF ~adts_frame_size_ok(frame_size)
  THEN [ok |-> FALSE, reason |-> "size", header |-> <<>>]
  ELSE [ok |-> TRUE, reason |-> "",
        header |-> adts_header_bytes(profile, sampling_frequency_index,
                                     channel_configuration, frame_size)]

\* [ok, reason, header]: on ok the header is prepended to the copy of the AU
prepend_adts_headers(self, caps, buf_size) ==
  adts_checked(get_audio_profile_object_type(caps),
               get_audio_channel_configuration(self.channels),
               get_audio_sampling_frequency_index(self.sample_rate),
               buf_size + ADTS_HEADER_LENGTH)

(***************************************************************************)
(* The element instance.  self is the record of the GstDabPlusParse fields *)
(* together with min_frame_size, the one property of the base class that   *)
(* the element sets.                                                       *)
(***************************************************************************)
AllAus == 6      \* the length of au[] in GstDabPlusSuperframeHeader

\* memset(&superframe_header, 0377, sizeof ...): every guint is 0xFFFFFFFF
ClearedHeader ==
  [header_firecode |-> G_MAXUINT32, rfa |-> G_MAXUINT32, dac_rate |-> G_MAXUINT32,
   sbr_flag |-> G_MAXUINT32, aac_channel_mode |-> G_MAXUINT32, ps_flag |-> G_MAXUINT32,
   mpeg_surround_config |-> G_MAXUINT32, num_aus |-> G_MAXUINT32,
   au |-> [k \in 1..AllAus |-> [start |-> G_MAXUINT32, size |-> G_MAXUINT32]]]

\* a reset that forgets to clear the stored header
C2_reset_keeps_header(self) ==
  [self EXCEPT !.object_type = -1,
               !.sample_rate = -1,
               !.channels = -1,
               !.i_header_type = "DABPLUS_HEADER_NOT_PARSED",
               !.o_header_type = "DABPLUS_HEADER_NOT_PARSED",
               !.superframe_size = 0,
               !.min_frame_size = SUPERFRAME_MAX_SIZE + FIRECODE_LENGTH]

gst_dabplusparse_reset(self) ==
  [self EXCEPT !.object_type = -1,
               !.sample_rate = -1,
               !.channels = -1,
               !.i_header_type = "DABPLUS_HEADER_NOT_PARSED",
               !.o_header_type = "DABPLUS_HEADER_NOT_PARSED",
               !.superframe_size = 0,
               !.superframe_header = ClearedHeader,
               !.min_frame_size = SUPERFRAME_MAX_SIZE + FIRECODE_LENGTH]

\* a comparison that never finds the parameters unchanged
C5_compare_never_same(hdr1, hdr2) == FALSE

\* a comparison that leaves ps_flag out
C8_compare_without_ps(hdr1, hdr2) ==
  /\ hdr1.dac_rate = hdr2.dac_rate
  /\ hdr1.sbr_flag = hdr2.sbr_flag
  /\ hdr1.aac_channel_mode = hdr2.aac_channel_mode
  /\ hdr1.mpeg_surround_config = hdr2.mpeg_surround_config

superframe_header_compare_audio_params(hdr1, hdr2) ==
  /\ hdr1.dac_rate = hdr2.dac_rate
  /\ hdr1.sbr_flag = hdr2.sbr_flag
  /\ hdr1.aac_channel_mode = hdr2.aac_channel_mode
  /\ hdr1.ps_flag = hdr2.ps_flag
  /\ hdr1.mpeg_surround_config = hdr2.mpeg_surround_config

(***************************************************************************)
(* gst_dabplusparse_set_src_caps.  The peer is the downstream element as   *)
(* the function sees it: whether caps with stream-format adts, and with    *)
(* stream-format raw, intersect the allowed caps, and whether              *)
(* gst_pad_set_caps succeeds.  The source pad's current caps are the       *)
(* record [profile, stream_format, channels]; the result is                *)
(* [res, self, caps, proposed], proposed being the stream formats tried.   *)
(***************************************************************************)
NoCaps == [profile |-> "", stream_format |-> "", channels |-> -1]

\* gst_codec_utils_aac_get_index_from_sample_rate
aac_get_index_from_sample_rate(rate) ==
  CASE rate = 96000 -> 0
    [] rate = 88200 -> 1
    [] rate = 64000 -> 2
    [] rate = 48000 -> 3
    [] rate = 44100 -> 4
    [] rate = 32000 -> 5
    [] rate = 24000 -> 6
    [] rate = 22050 -> 7
    [] rate = 16000 -> 8
    [] rate = 12000 -> 9
    [] rate = 11025 -> 10
    [] rate = 8000 -> 11
    [] rate = 7350 -> 12
    [] OTHER -> -1

\* the profile gst_codec_utils_aac_caps_set_level_and_profile writes for the
\* audio object type in the first five bits of codec_data
aac_profile_of(object_type) ==
  CASE object_type = 1 -> "main"
    [] object_type = 2 -> "lc"
    [] object_type = 3 -> "ssr"
    [] object_type = 4 -> "ltp"
    [] OTHER -> ""

\* a negotiation that prefers raw
C9_prefers_raw(peer) ==
  IF peer.raw THEN "DABPLUS_HEADER_RAW"
  ELSE IF peer.adts THEN "DABPLUS_HEADER_ADTS"
  ELSE "DABPLUS_HEADER_UNKNOWN"

\* gstdabplusparse.c:243-279: the format the do-while settles on
negotiated_header_type(peer) ==
  IF peer.adts THEN "DABPLUS_HEADER_ADTS"
  ELSE IF peer.raw THEN "DABPLUS_HEADER_RAW"
  ELSE "DABPLUS_HEADER_UNKNOWN"

proposed_formats(peer) ==
  IF peer.adts THEN << "adts" >> ELSE << "adts", "raw" >>

stream_format_of(o_header_type) ==
  CASE o_header_type = "DABPLUS_HEADER_ADTS" -> "adts"
    [] o_header_type = "DABPLUS_HEADER_RAW" -> "raw"
    [] OTHER -> ""

\* gstdabplusparse.c:221-288
set_src_caps_proposed(self, caps, peer, o_header_type) ==
  [res |-> peer.set_caps,
   self |-> [self EXCEPT !.o_header_type = o_header_type],
   caps |-> IF peer.set_caps
            THEN [profile |-> aac_profile_of(self.object_type),
                  stream_format |-> stream_format_of(o_header_type),
                  channels |-> IF self.channels > 0 THEN self.channels ELSE -1]
            ELSE caps,
   proposed |-> proposed_formats(peer)]

set_src_caps(self, caps, peer) ==
  IF aac_get_index_from_sample_rate(self.sample_rate) < 0
  THEN [res |-> FALSE, self |-> self, caps |-> caps, proposed |-> <<>>]
  ELSE set_src_caps_proposed(self, caps, peer, negotiated_header_type(peer))

\* the resolution with the object type 5 of the comment at line 940
C15_resolve_object_type_5(self, hdr) ==
  [self EXCEPT
     !.object_type = IF hdr.sbr_flag # 0 THEN 5 ELSE 1,
     !.sample_rate = IF hdr.dac_rate # 0
                     THEN (IF hdr.sbr_flag # 0 THEN 24000 ELSE 48000)
                     ELSE (IF hdr.sbr_flag # 0 THEN 16000 ELSE 32000),
     !.channels = IF hdr.mpeg_surround_config > 0
                  THEN (CASE hdr.mpeg_surround_config = 1 -> 6
                          [] hdr.mpeg_surround_config = 2 -> 8
                          [] OTHER -> 0)
                  ELSE hdr.aac_channel_mode + 1]

\* gstdabplusparse.c:939-966
resolve_audio_params(self, hdr) ==
  [self EXCEPT
     !.object_type = IF hdr.sbr_flag # 0 THEN 1 ELSE 1,
     !.sample_rate = IF hdr.dac_rate # 0
                     THEN (IF hdr.sbr_flag # 0 THEN 24000 ELSE 48000)
                     ELSE (IF hdr.sbr_flag # 0 THEN 16000 ELSE 32000),
     !.channels = IF hdr.mpeg_surround_config > 0
                  THEN (CASE hdr.mpeg_surround_config = 1 -> 6
                          [] hdr.mpeg_surround_config = 2 -> 8
                          [] OTHER -> 0)
                  ELSE hdr.aac_channel_mode + 1]

(***************************************************************************)
(* Input streams.  A stream is [len, hdr, size, lead, kinds]: len bytes,   *)
(* all zero except the 11-byte superframe headers hdr[o] placed at the     *)
(* offsets o in DOMAIN hdr.  The headers are built arithmetically from the *)
(* layout of ETSI TS 102 563 (flags byte, 12-bit AU start addresses,       *)
(* guard word in front), not with the parser's operators.                  *)
(***************************************************************************)
LongFrames == 44      \* superframes of a long stream that follow the first ones
ShortFrames == 3      \* superframes in a short stream
CorruptAt == 3        \* index (from 0) of the superframe with a corrupted guard
TailBytes == 25931    \* zero bytes that follow the superframes of a padded stream
SmallN == 5           \* most streams have superframes of SmallN x 120 bytes
SmallSize == SmallN * SUPERFRAME_MIN_SIZE

Min2(a, b) == IF a < b THEN a ELSE b

NumAusOf(f) ==
  IF (f \div 32) % 2 = 1
  THEN (IF (f \div 64) % 2 = 0 THEN 2 ELSE 3)
  ELSE (IF (f \div 64) % 2 = 0 THEN 4 ELSE 6)

FirstStartOf(f) ==
  IF (f \div 32) % 2 = 1
  THEN (IF (f \div 64) % 2 = 0 THEN 5 ELSE 6)
  ELSE (IF (f \div 64) % 2 = 0 THEN 8 ELSE 11)

AusEndOf(S) == S - (S \div 120) * 10

StepOf(kind, S) ==
  Min2((AusEndOf(S) - FirstStartOf(kind.flags)) \div NumAusOf(kind.flags),
       (4095 - FirstStartOf(kind.flags)) \div NumAusOf(kind.flags))
  - (IF kind.variant = "alt" THEN 2 ELSE 0)

\* start addresses of AU 0..5 at 1..6 (0 where the superframe has no such AU)
StartsOf(kind, S) ==
  [k \in 1..6 |->
     IF k > NumAusOf(kind.flags) THEN 0
     ELSE IF k = 2 /\ kind.variant = "desc" THEN 2
     ELSE FirstStartOf(kind.flags) + (k - 1) * StepOf(kind, S)]

\* bytes 2..10 of the header: flags, then au_start[1..5], 12 bits each
BodyOf(f, st) ==
  << f,
     st[2] \div 16,
     (st[2] % 16) * 16 + st[3] \div 256,
     st[3] % 256,
     st[4] \div 16,
     (st[4] % 16) * 16 + st[5] \div 256,
     st[5] % 256,
     st[6] \div 16,
     (st[6] % 16) * 16 >>

GuardOf(body, variant) ==
  IF variant = "bad"
  THEN BitXor(firecode_loop(<< 0, 0 >> \o body, 2, 0), 1)
  ELSE firecode_loop(<< 0, 0 >> \o body, 2, 0)

WithGuard(body, guard) == << guard \div 256, guard % 256 >> \o body

HeaderOf(kind, S) ==
  WithGuard(BodyOf(kind.flags, StartsOf(kind, S)),
            GuardOf(BodyOf(kind.flags, StartsOf(kind, S)), kind.variant))

K(f) == [flags |-> f, variant |-> "ok"]
Kbad(f) == [flags |-> f, variant |-> "bad"]
Kalt(f) == [flags |-> f, variant |-> "alt"]
Kdesc(f) == [flags |-> f, variant |-> "desc"]

Build(S, lead, kinds, tail) ==
  [len |-> lead + Len(kinds) * S + tail,
   hdr |-> [o \in {lead + (k - 1) * S : k \in 1..Len(kinds)} |->
              HeaderOf(kinds[(o - lead) \div S + 1], S)],
   size |-> S, lead |-> lead, kinds |-> kinds]

WithHeader(s, o, h) ==
  [s EXCEPT !.hdr = [p \in DOMAIN s.hdr \cup {o} |-> IF p = o THEN h ELSE s.hdr[p]]]

Same(kind, n) == [k \in 1..n |-> kind]

Corrupted(kinds, at) ==
  [k \in 1..Len(kinds) |-> IF k = at + 1 THEN Kbad(kinds[k].flags) ELSE kinds[k]]

\* ShortFrames superframes and then the end of the stream
ShortStream == Build(SmallSize, 0, Same(K(48), ShortFrames), 0)

\* superframes with constant flags, SUPERFRAME_MAX_SIZE + FIRECODE_LENGTH bytes or more
LongStream == Build(SmallSize, 0, Same(K(48), LongFrames), 0)

\* as LongStream, the guard of superframe number CorruptAt corrupted
CorruptedStream ==
  Build(SmallSize, 0, Corrupted(Same(K(48), CorruptAt + 2 + LongFrames), CorruptAt), 0)

CorruptPos == CorruptAt * SmallSize

\* superframes one step of 120 bytes larger than the largest allowed
OversizeStream ==
  Build(SUPERFRAME_MAX_SIZE + SUPERFRAME_MIN_SIZE, 0, Same(K(48), ShortFrames), 0)

Streams ==
  << ShortStream,
     Build(SmallSize, 0, Same(K(48), ShortFrames), TailBytes),
     Build(SmallSize, 0, << K(48), Kalt(48), K(64), Kalt(64), K(80), K(88) >>, TailBytes),
     Build(SUPERFRAME_MAX_SIZE, 0, Same(K(48), ShortFrames), 0),
     OversizeStream,
     Build(SmallSize, 100, Same(K(0), ShortFrames), TailBytes),
     WithHeader(Build(SmallSize, 0, Same(K(96), ShortFrames), TailBytes),
                130, HeaderOf(K(96), SmallSize)),
     Build(SmallSize, 0, << K(48), Kdesc(48), K(48) >>, TailBytes),
     Build(SmallSize, 0, << K(49), K(50), K(51) >>, TailBytes),
     Build(SUPERFRAME_MIN_SIZE, 0, Same(K(64), ShortFrames), TailBytes),
     Build(SmallSize, 0, << K(48) >>, TailBytes),
     Build(SmallSize, 0, Corrupted(Same(K(48), ShortFrames + 2), 2), TailBytes),
     LongStream,
     CorruptedStream >>

byte_at(s, p) ==
  IF \E o \in (p - 10)..p : o \in DOMAIN s.hdr
  THEN s.hdr[CHOOSE o \in (p - 10)..p : o \in DOMAIN s.hdr][
         p - (CHOOSE o \in (p - 10)..p : o \in DOMAIN s.hdr) + 1]
  ELSE 0

\* the 11 bytes data[0..10] at offset p of the stream
data_at(s, p) ==
  IF p \in DOMAIN s.hdr THEN s.hdr[p]
  ELSE [k \in 1..FIRECODE_LENGTH |-> byte_at(s, p + k - 1)]

\* the offsets p at which gst_dabplusparse_check_firecode(stream + p) holds;
\* 11 zero bytes never pass, so only offsets that touch a header are tried
guards_of(s) ==
  {p \in UNION {(o - 10)..(o + 10) : o \in DOMAIN s.hdr} :
     p >= 0 /\ p + FIRECODE_LENGTH <= s.len /\ check_firecode(data_at(s, p))}

Guards == [n \in DOMAIN Streams |-> guards_of(Streams[n])]

(***************************************************************************)
(* The window handed to handle_frame is w = [stream, pos, size]: the       *)
(* mapped buffer holds the bytes pos .. pos+size-1 of stream number        *)
(* w.stream.  map.data + i is then offset w.pos + i of the stream.         *)
(***************************************************************************)
window_check_firecode(w, i) == (w.pos + i) \in Guards[w.stream]

SetMin(S) == CHOOSE x \in S : \A y \in S : x <= y

\* a loop that forgets how far it came when it finds nothing
C24_scan_result_stays(from, to, hits) ==
  IF hits # {}
  THEN [found |-> TRUE, i |-> SetMin(hits)]
  ELSE [found |-> FALSE, i |-> from]

\* result of a loop  for (found = FALSE, i = from; i < to; i++) if (check) break;
scan_result(from, to, hits) ==
  IF hits # {}
  THEN [found |-> TRUE, i |-> SetMin(hits)]
  ELSE [found |-> FALSE, i |-> IF to > from THEN to ELSE from]

scan_firecode(w, from) ==
  scan_result(from, w.size - FIRECODE_LENGTH,
              {g - w.pos : g \in {p \in Guards[w.stream] :
                                    /\ p - w.pos >= from
                                    /\ p - w.pos < w.size - FIRECODE_LENGTH}})

\* a detect_stream that takes any distance between two guards
C1_accepts_any_size(superframe_size) == TRUE

\* a detect_stream that takes every distance that is a multiple of 10
C22_accepts_multiples_of_10(superframe_size) == superframe_size % RS_CODE_SIZE = 0

\* gstdabplusparse.c:472
superframe_size_accepted(superframe_size) ==
  superframe_size % SUPERFRAME_MIN_SIZE = 0

\* gstdabplusparse.c:456: where the search for the second guard begins
second_scan_start == SUPERFRAME_MIN_SIZE

(***************************************************************************)
(* gst_dabplusparse_detect_stream: [status, self, skipsize].               *)
(***************************************************************************)
\* a detection that leaves the minimum frame size of the base class alone
C20_detect_size_keeps_min(self, second, superframe_size) ==
  IF ~superframe_size_accepted(superframe_size)
  THEN [status |-> FALSE, self |-> self, skipsize |-> second.i]
  ELSE [status |-> TRUE,
        self |-> [self EXCEPT !.superframe_size = superframe_size],
        skipsize |-> 0]

\* gstdabplusparse.c:470-485
detect_size(self, second, superframe_size) ==
  IF ~superframe_size_accepted(superframe_size)
  THEN [status |-> FALSE, self |-> self, skipsize |-> second.i]
  ELSE [status |-> TRUE,
        self |-> [self EXCEPT !.superframe_size = superframe_size,
                              !.min_frame_size = superframe_size],
        skipsize |-> 0]

\* a second scan that reports nothing to skip when it finds no guard
C27_detect_second_no_skip(self, first, second) ==
  IF ~second.found
  THEN [status |-> FALSE, self |-> self, skipsize |-> 0]
  ELSE detect_size(self, second, guint_sub(second.i, first.i))

\* gstdabplusparse.c:465-470
detect_second(self, first, second) ==
  IF ~second.found
  THEN [status |-> FALSE, self |-> self, skipsize |-> second.i]
  ELSE detect_size(self, second, guint_sub(second.i, first.i))

\* a first scan that reports nothing to skip when the guard is not at offset 0
C3_detect_first_no_skip(self, w, first) ==
  IF ~first.found \/ first.i # 0
  THEN [status |-> FALSE, self |-> self, skipsize |-> 0]
  ELSE detect_second(self, first, scan_firecode(w, second_scan_start))

\* gstdabplusparse.c:445-463
detect_first(self, w, first) ==
  IF ~first.found \/ first.i # 0
  THEN [status |-> FALSE, self |-> self, skipsize |-> first.i]
  ELSE detect_second(self, first, scan_firecode(w, second_scan_start))

\* a detection that scans a window of any length
C21_detect_stream_any_window(self, w) == detect_first(self, w, scan_firecode(w, 0))

\* gstdabplusparse.c:429-445
detect_stream(self, w) ==
  IF w.size < SUPERFRAME_MAX_SIZE + FIRECODE_LENGTH
  THEN [status |-> FALSE,
        self |-> [self EXCEPT !.min_frame_size = SUPERFRAME_MAX_SIZE + FIRECODE_LENGTH],
        skipsize |-> 0]
  ELSE detect_first(self, w, scan_firecode(w, 0))

(***************************************************************************)
(* gst_dabplusparse_handle_frame.  The result records what the call did:   *)
(*   self, caps   the element and the source pad caps afterwards           *)
(*   ret          the GstFlowReturn ("CRASH": the call did not return)     *)
(*   skipsize     *skipsize                                                *)
(*   flushed      the size given to the last gst_base_parse_finish_frame   *)
(*   pushed       the AU frames handed to gst_base_parse_finish_frame and  *)
(*                accepted by it, [start, size, adts]                      *)
(*   negotiated   whether gst_dabplusparse_set_src_caps was called         *)
(*   proposed     the stream formats it tried                              *)
(*   unmapped     whether gst_buffer_unmap was reached                     *)
(*   did_reset    whether gst_dabplusparse_reset was called                *)
(*   parsed       the header decoded by parse_superframe_header, if any    *)
(*   fail         what made the call fail                                  *)
(* peer is the downstream element as set_src_caps sees it; accept is the   *)
(* number of AU frames gst_base_parse_finish_frame takes before it         *)
(* returns an error.                                                       *)
(***************************************************************************)
Returned(self, caps) ==
  [self |-> self, caps |-> caps, ret |-> "GST_FLOW_OK", skipsize |-> 0, flushed |-> 0,
   pushed |-> <<>>, negotiated |-> FALSE, proposed |-> <<>>, unmapped |-> TRUE,
   did_reset |-> FALSE, parsed |-> <<>>, fail |-> ""]

\* gst_buffer_copy_region(buffer, flags, offset, size) returns NULL unless
\* bufsize >= offset and bufsize >= offset + size (gsize arithmetic)
copy_region_valid(bufsize, offset, size) ==
  /\ guint_is_below_2_31(offset)
  /\ guint_is_below_2_31(size)
  /\ bufsize >= offset
  /\ bufsize >= offset + size

\* a loop that takes the access units from the last to the first
C6_au_index_reversed(hdr, i) == hdr.num_aus - i

\* au[i] of the C array
au_index(hdr, i) == i + 1

\* the bound of the loop at gstdabplusparse.c:982
emit_count(hdr) == hdr.num_aus

\* what gst_base_parse_finish_frame (baseparse, &au_frame, 0) returns
finish_au_frame(accept, i) ==
  IF i < accept THEN "GST_FLOW_OK" ELSE "GST_FLOW_FLUSHING"

RECURSIVE emit_aus(_, _, _, _, _, _, _)

\* gstdabplusparse.c:1000-1005
emit_push(self, caps, hdr, bufsize, accept, i, pushed, out, ret) ==
  IF ret # "GST_FLOW_OK"
  THEN [ret |-> ret, pushed |-> pushed, fail |-> "push"]
  ELSE emit_aus(self, caps, hdr, bufsize, accept, i + 1, Append(pushed, out))

\* gstdabplusparse.c:992-996
emit_adts(self, caps, hdr, bufsize, accept, i, pushed, au, adts) ==
  IF ~adts.ok
  THEN [ret |-> "GST_FLOW_ERROR", pushed |-> pushed, fail |-> adts.reason]
  ELSE emit_push(self, caps, hdr, bufsize, accept, i, pushed,
                 [start |-> au.start, size |-> au.size, adts |-> adts.header],
                 finish_au_frame(accept, i))

\* gstdabplusparse.c:986-999: a NULL au_frame.buffer is dereferenced at 990
emit_au(self, caps, hdr, bufsize, accept, i, pushed, au) ==
  IF ~copy_region_valid(bufsize, au.start, au.size)
  THEN [ret |-> "CRASH", pushed |-> pushed, fail |-> "copy_region"]
  ELSE IF self.o_header_type = "DABPLUS_HEADER_ADTS"
  THEN emit_adts(self, caps, hdr, bufsize, accept, i, pushed, au,
                 prepend_adts_headers(self, caps, au.size))
  ELSE emit_push(self, caps, hdr, bufsize, accept, i, pushed,
                 [start |-> au.start, size |-> au.size, adts |-> <<>>],
                 finish_au_frame(accept, i))

\* the loop at gstdabplusparse.c:982-1006; ret "" means it ran to its end
emit_aus(self, caps, hdr, bufsize, accept, i, pushed) ==
  IF i >= emit_count(hdr)
  THEN [ret |-> "", pushed |-> pushed, fail |-> ""]
  ELSE emit_au(self, caps, hdr, bufsize, accept, i, pushed, hdr.au[au_index(hdr, i)])

\* an emission loop whose error is lost on the way out
C7_emit_result_swallows_error(r, e) ==
  [r EXCEPT !.ret = "GST_FLOW_OK", !.pushed = e.pushed, !.fail = e.fail]

\* a loop that has the base class drop the smallest superframe at its end
C19_emit_result_flushes_min(r, e) ==
  IF e.ret # ""
  THEN [r EXCEPT !.ret = e.ret, !.pushed = e.pushed, !.fail = e.fail]
  ELSE [r EXCEPT !.ret = "GST_FLOW_OK", !.pushed = e.pushed,
                 !.flushed = SUPERFRAME_MIN_SIZE]

\* gstdabplusparse.c:1006-1009
emit_result(r, e) ==
  IF e.ret # ""
  THEN [r EXCEPT !.ret = e.ret, !.pushed = e.pushed, !.fail = e.fail]
  ELSE [r EXCEPT !.ret = "GST_FLOW_OK", !.pushed = e.pushed,
                 !.flushed = r.self.superframe_size]

\* gstdabplusparse.c:976-1009
emit_frame(r, hdr, bufsize, accept) ==
  IF /\ r.self.o_header_type # "DABPLUS_HEADER_ADTS"
     /\ r.self.o_header_type # "DABPLUS_HEADER_RAW"
  THEN [r EXCEPT !.ret = "GST_FLOW_NOT_LINKED", !.fail = "not negotiated"]
  ELSE emit_result(r, emit_aus(r.self, r.caps, hdr, bufsize, accept, 0, <<>>))

\* gstdabplusparse.c:925
store_header(self, hdr) == [self EXCEPT !.superframe_header = hdr]

\* gstdabplusparse.c:968-971
negotiate_result(r, neg, hdr, bufsize, accept) ==
  IF ~neg.res
  THEN [r EXCEPT !.self = neg.self, !.caps = neg.caps, !.negotiated = TRUE,
                 !.proposed = neg.proposed, !.ret = "GST_FLOW_NOT_LINKED",
                 !.fail = "set_src_caps"]
  ELSE emit_frame([r EXCEPT !.self = neg.self, !.caps = neg.caps, !.negotiated = TRUE,
                            !.proposed = neg.proposed],
                  hdr, bufsize, accept)

\* gstdabplusparse.c:922-1009: same is the result of the comparison at 922
process_compared(r, same, hdr, bufsize, peer, accept) ==
  IF same
  THEN emit_frame(r, hdr, bufsize, accept)
  ELSE negotiate_result(r, set_src_caps(resolve_audio_params(r.self, hdr), r.caps, peer),
                        hdr, bufsize, accept)

process_frame(self, caps, hdr, bufsize, peer, accept) ==
  process_compared([Returned(store_header(self, hdr), caps) EXCEPT !.parsed = << hdr >>],
                   superframe_header_compare_audio_params(hdr, self.superframe_header),
                   hdr, bufsize, peer, accept)

\* gstdabplusparse.c:907-920
handle_parsed(self, caps, ph, w, peer, accept) ==
  IF ~ph.ok
  THEN [Returned(gst_dabplusparse_reset(self), caps) EXCEPT !.did_reset = TRUE]
  ELSE process_frame(self, caps, ph.hdr, w.size, peer, accept)

\* a short buffer that is never an error
C4_short_buffer_never_error(draining) == FALSE

\* gstdabplusparse.c:895: a short buffer is an error unless the base class drains
short_buffer_is_error(draining) == ~draining

\* gstdabplusparse.c:892-920
handle_synchronized(self, caps, w, draining, peer, accept) ==
  IF ~(w.size >= self.superframe_size)
  THEN (IF short_buffer_is_error(draining)
        THEN [Returned(self, caps) EXCEPT !.ret = "GST_FLOW_ERROR", !.unmapped = FALSE,
                                          !.fail = "short buffer"]
        ELSE Returned(self, caps))
  ELSE IF ~window_check_firecode(w, 0)
  THEN [Returned(gst_dabplusparse_reset(self), caps) EXCEPT !.did_reset = TRUE]
  ELSE handle_parsed(self, caps,
                     parse_superframe_header(data_at(Streams[w.stream], w.pos),
                                             self.superframe_size),
                     w, peer, accept)

\* gstdabplusparse.c:883-890
handle_detected(det, caps, w, draining, peer, accept) ==
  IF ~det.status
  THEN [Returned(det.self, caps) EXCEPT !.skipsize = det.skipsize]
  ELSE handle_synchronized([det.self EXCEPT !.i_header_type = "DABPLUS_HEADER_SUPERFRAME",
                                            !.o_header_type = "DABPLUS_HEADER_ADTS"],
                           caps, w, draining, peer, accept)

handle_frame(self, caps, w, draining, peer, accept) ==
  IF self.i_header_type # "DABPLUS_HEADER_SUPERFRAME"
  THEN handle_detected(detect_stream(self, w), caps, w, draining, peer, accept)
  ELSE handle_synchronized(self, caps, w, draining, peer, accept)

(***************************************************************************)
(* The state: the stream being fed (its number in Streams), the offset of  *)
(* the first byte the base class has not yet consumed, the streaming       *)
(* session, the element, the source pad caps, the audio parameters of the  *)
(* header decoded last since the last start or reset, a record of the last *)
(* call, and a bit that flips with every step of the base class.  The      *)
(* functions of the element that depend on their arguments alone are also  *)
(* applied one at a time to arguments of their own: input holds the        *)
(* arguments and output what the function returned for them.               *)
(***************************************************************************)
VARIABLES stream, pos, session, dabplusparse, srccaps, decoded, call, tick, input, output

vars ==
  << stream, pos, session, dabplusparse, srccaps, decoded, call, tick, input, output >>

NoInput == [op |-> "none"]

NoOutput == <<>>

Peers ==
  { [adts |-> TRUE, raw |-> TRUE, set_caps |-> TRUE],
    [adts |-> FALSE, raw |-> TRUE, set_caps |-> TRUE],
    [adts |-> FALSE, raw |-> FALSE, set_caps |-> TRUE],
    [adts |-> FALSE, raw |-> FALSE, set_caps |-> FALSE],
    [adts |-> TRUE, raw |-> TRUE, set_caps |-> FALSE] }

NoPeer == [adts |-> FALSE, raw |-> FALSE, set_caps |-> FALSE]

Accepts == {1, AllAus}

NoDecoded == <<>>

audio_params(hdr) ==
  << hdr.dac_rate, hdr.sbr_flag, hdr.aac_channel_mode, hdr.ps_flag,
     hdr.mpeg_surround_config >>

\* the element after gst_dabplusparse_init
ResetState ==
  gst_dabplusparse_reset(
    [object_type |-> 0, sample_rate |-> 0, channels |-> 0,
     i_header_type |-> "DABPLUS_HEADER_NOT_PARSED",
     o_header_type |-> "DABPLUS_HEADER_NOT_PARSED",
     superframe_size |-> 0, superframe_header |-> ClearedHeader,
     min_frame_size |-> 0])

NoCall(op) ==
  [op |-> op, pos |-> 0, size |-> 0, draining |-> FALSE, peer |-> NoPeer, accept |-> 0,
   before |-> ResetState, decoded_before |-> NoDecoded,
   ret |-> "", skipsize |-> 0, flushed |-> 0, pushed |-> <<>>, negotiated |-> FALSE,
   proposed |-> <<>>, unmapped |-> FALSE, did_reset |-> FALSE, parsed |-> <<>>, fail |-> ""]

GeneralStreams == 1..12
HostStreams == {n \in DOMAIN Streams : Streams[n] \in {ShortStream, LongStream, CorruptedStream}}

InitWith(streams) ==
  /\ stream \in streams
  /\ pos = 0
  /\ session = "idle"
  /\ dabplusparse = ResetState
  /\ srccaps = NoCaps
  /\ decoded = NoDecoded
  /\ call = NoCall("init")
  /\ tick = 0
  /\ input = NoInput
  /\ output = NoOutput

Init == InitWith(GeneralStreams)

\* gst_dabplusparse_start, called when the base class begins streaming
StartSession ==
  /\ session = "idle"
  /\ session' = "running"
  /\ pos' = 0
  /\ dabplusparse' = gst_dabplusparse_reset(dabplusparse)
  /\ srccaps' = NoCaps
  /\ decoded' = NoDecoded
  /\ call' = NoCall("start")
  /\ UNCHANGED << stream, input, output >>

Start == StartSession /\ UNCHANGED tick

\* gst_dabplusparse_stop: the element is left as it is
Stop ==
  /\ session = "running"
  /\ session' = "idle"
  /\ call' = NoCall("stop")
  /\ UNCHANGED << stream, pos, dabplusparse, srccaps, decoded, tick, input, output >>

\* the session after a call that returned ret to a host that goes on / gives up
session_after(r, w, draining, persistent) ==
  IF r.ret = "CRASH" THEN "crashed"
  ELSE IF persistent THEN "running"
  ELSE IF r.ret # "GST_FLOW_OK" THEN "failed"
  ELSE IF draining /\ r.flushed = 0 /\ r.skipsize = 0 THEN "eos"
  ELSE "running"

decoded_after(r) ==
  IF r.did_reset THEN NoDecoded
  ELSE IF r.parsed # <<>> THEN << audio_params(r.parsed[1]) >>
  ELSE decoded

\* one call of handle_frame with result r, and what the base class does with
\* it: it drops the flushed bytes, or else the bytes the call asked to skip
Called(w, draining, peer, accept, persistent, r) ==
  /\ dabplusparse' = r.self
  /\ srccaps' = r.caps
  /\ pos' = pos + r.flushed + r.skipsize
  /\ session' = session_after(r, w, draining, persistent)
  /\ decoded' = decoded_after(r)
  /\ call' = [op |-> "handle_frame", pos |-> pos, size |-> w.size, draining |-> draining,
              peer |-> IF r.negotiated THEN peer ELSE NoPeer, accept |-> accept,
              before |-> dabplusparse, decoded_before |-> decoded,
              ret |-> r.ret, skipsize |-> r.skipsize, flushed |-> r.flushed,
              pushed |-> r.pushed, negotiated |-> r.negotiated, proposed |-> r.proposed,
              unmapped |-> r.unmapped, did_reset |-> r.did_reset, parsed |-> r.parsed,
              fail |-> r.fail]
  /\ UNCHANGED << stream, input, output >>

Call(w, draining, peer, accept, persistent) ==
  \E r \in {handle_frame(dabplusparse, srccaps, w, draining, peer, accept)} :
    Called(w, draining, peer, accept, persistent, r)

Synchronized == dabplusparse.i_header_type = "DABPLUS_HEADER_SUPERFRAME"

Remaining == Streams[stream].len - pos

\* The draining flag is read only for a window shorter than the superframe
\* of a synchronized element, the peer and the emitter only once the window
\* starts with a valid guard: elsewhere one value stands for all.
DrainingChoices(size) ==
  IF Synchronized /\ size < dabplusparse.superframe_size THEN BOOLEAN ELSE {FALSE}

PeerChoices == IF pos \in Guards[stream] THEN Peers ELSE {NoPeer}

AcceptChoices == IF pos \in Guards[stream] THEN Accepts ELSE {AllAus}

\* window sizes a caller of the vmethod tries: everything that is left and,
\* before synchronization, the initial minimum and a small window, after
\* it, the superframe and one byte less
WindowLens ==
  {n \in {Remaining} \cup
          (IF Synchronized
           THEN {dabplusparse.superframe_size, dabplusparse.superframe_size - 1}
           ELSE {SUPERFRAME_MAX_SIZE + FIRECODE_LENGTH, SUPERFRAME_MIN_SIZE}) :
     n >= 1 /\ n <= Remaining}

\* handle_frame called by any caller that keeps calling whatever is returned
HandleFrame ==
  /\ session = "running"
  /\ \E size \in WindowLens :
       \E draining \in DrainingChoices(size), peer \in PeerChoices, accept \in AcceptChoices :
         Call([stream |-> stream, pos |-> pos, size |-> size], draining, peer, accept, TRUE)
  /\ UNCHANGED tick

Next == Start \/ Stop \/ HandleFrame

Spec == Init /\ [][Next]_vars

(***************************************************************************)
(* The element under GstBaseParse in push mode.  The base class calls      *)
(* handle_frame with everything it has buffered once that is at least      *)
(* min_frame_size, and again as long as calls consume or skip something;   *)
(* after a call that did neither it waits for more input.  When the input  *)
(* has ended it drains: it calls with what is left, whatever its length,   *)
(* until a call makes no progress.  It stops calling after a return other  *)
(* than GST_FLOW_OK.  Every step of the base class flips tick.             *)
(***************************************************************************)
InitHost == InitWith(HostStreams)

Tick == tick' = 1 - tick

HostStart == StartSession /\ Tick

\* the size of the window of the last call if that call made no progress
StalledSize ==
  IF call.op = "handle_frame" /\ call.pos = pos /\ call.flushed = 0 /\ call.skipsize = 0
  THEN call.size
  ELSE 0

HostDraining == call.op = "handle_frame" /\ call.draining

\* the windows the base class may pass next, with the draining flag
HostWindows ==
  IF \/ HostDraining
     \/ Remaining < dabplusparse.min_frame_size
     \/ StalledSize = Remaining
  THEN { << Remaining, TRUE >> }
  ELSE { << n, FALSE >> : n \in {m \in {dabplusparse.min_frame_size, Remaining} :
                                   m > StalledSize} }

HostFrame ==
  /\ session = "running"
  /\ Remaining > 0
  /\ \E wd \in HostWindows, peer \in PeerChoices, accept \in AcceptChoices :
       Call([stream |-> stream, pos |-> pos, size |-> wd[1]], wd[2], peer, accept, FALSE)
  /\ Tick

\* end of stream with nothing left to drain
HostEos ==
  /\ session = "running"
  /\ Remaining = 0
  /\ session' = "eos"
  /\ Tick
  /\ UNCHANGED << stream, pos, dabplusparse, srccaps, decoded, call, input, output >>

\* the base class stops the element when streaming has ended
HostStop ==
  /\ session \in {"eos", "failed"}
  /\ session' = "stopped"
  /\ Tick
  /\ UNCHANGED << stream, pos, dabplusparse, srccaps, decoded, call, input, output >>

HostNext == HostStart \/ HostFrame \/ HostEos \/ HostStop

\* The base class takes a step whenever it has one: HostNext is enabled
\* exactly while the session is neither stopped nor crashed, and each of
\* its steps flips tick.
HostStep == session \in {"idle", "running", "eos", "failed"} /\ Tick

HostSpec == InitHost /\ [][HostNext]_vars /\ WF_tick(HostStep)

(***************************************************************************)
(* Properties.  They speak of the last call (the record call) and of the   *)
(* state it left behind.                                                   *)
(***************************************************************************)
WasCall == call.op = "handle_frame"

WasSynchronized == call.before.i_header_type = "DABPLUS_HEADER_SUPERFRAME"

\* the call found synchronization
Acquired == WasCall /\ ~WasSynchronized /\ Synchronized

\* C1: the parser goes from unsynchronized to synchronized only in a call
\* whose window has a valid guard at offset 0 and a valid guard at offset
\* superframe_size (both inside the window), the recorded superframe_size
\* being a positive multiple of 120; a stream with a single guard never
\* synchronizes.
C1_SyncNeedsTwoGuards ==
  Acquired =>
    /\ call.pos \in Guards[stream]
    /\ (call.pos + dabplusparse.superframe_size) \in Guards[stream]
    /\ dabplusparse.superframe_size + FIRECODE_LENGTH <= call.size
    /\ dabplusparse.superframe_size >= SUPERFRAME_MIN_SIZE
    /\ dabplusparse.superframe_size % SUPERFRAME_MIN_SIZE = 0
    /\ Cardinality(Guards[stream]) >= 2

C1_Witness ==
  /\ Acquired
  /\ dabplusparse.superframe_size = SmallSize
  /\ Cardinality(Guards[stream]) > 2

\* the synchronized call met an invalid guard in a window that was long enough
GuardFailed ==
  /\ WasCall
  /\ WasSynchronized
  /\ call.size >= call.before.superframe_size
  /\ call.pos \notin Guards[stream]

\* C2: a synchronized call whose window holds at least superframe_size bytes
\* and whose guard at offset 0 is invalid emits nothing, consumes and skips
\* nothing, returns GST_FLOW_OK, and leaves the element as after init:
\* unsynchronized, superframe_size 0, object_type, sample_rate and channels
\* -1, output header type undetermined, stored header cleared.
C2_GuardFailureResets ==
  GuardFailed =>
    /\ call.pushed = <<>>
    /\ call.flushed = 0
    /\ call.skipsize = 0
    /\ pos = call.pos
    /\ call.ret = "GST_FLOW_OK"
    /\ dabplusparse.i_header_type = "DABPLUS_HEADER_NOT_PARSED"
    /\ dabplusparse.o_header_type = "DABPLUS_HEADER_NOT_PARSED"
    /\ dabplusparse.superframe_size = 0
    /\ dabplusparse.object_type = -1
    /\ dabplusparse.sample_rate = -1
    /\ dabplusparse.channels = -1
    /\ dabplusparse.superframe_header = ClearedHeader
    /\ dabplusparse = ResetState

C2_Witness ==
  /\ GuardFailed
  /\ call.before.superframe_header # ClearedHeader
  /\ call.before.channels # -1

\* the call on the superframe with the corrupted guard, made in sync
AtCorrupted ==
  /\ Streams[stream] = CorruptedStream
  /\ WasCall
  /\ WasSynchronized
  /\ call.pos = CorruptPos

Resynchronized ==
  /\ Streams[stream] = CorruptedStream
  /\ Synchronized
  /\ dabplusparse.superframe_size = SmallSize
  /\ pos > CorruptPos

\* C3: on a stream of well-formed superframes of constant size S with one
\* corrupted guard, under a base class that always supplies at least
\* min_frame_size bytes, the call on the corrupted superframe loses
\* synchronization and emits nothing, and from there the element eventually
\* is synchronized again with superframe_size = S, past the corrupted frame.
C3_Resynchronizes ==
  /\ [](AtCorrupted => (~Synchronized /\ call.pushed = <<>> /\ pos = CorruptPos))
  /\ [](\A i \in 1..Len(call.pushed) :
          Streams[stream] = CorruptedStream =>
            (call.pos >= CorruptPos + SmallSize
               \/ call.pos + call.pushed[i].start + call.pushed[i].size <= CorruptPos))
  /\ (AtCorrupted ~> Resynchronized)

C3_Witness ==
  /\ Resynchronized
  /\ Acquired
  /\ call.pos = CorruptPos + SmallSize

\* the synchronized call was given a window shorter than the superframe
ShortWindow ==
  /\ WasCall
  /\ WasSynchronized
  /\ call.size < call.before.superframe_size

\* C4 as stated: every synchronized call with a window shorter than
\* superframe_size returns non-fatally, with the parser state unchanged and
\* nothing emitted, draining or not.
C4_ShortWindowNeverFatal ==
  ShortWindow =>
    /\ call.ret = "GST_FLOW_OK"
    /\ dabplusparse = call.before
    /\ call.pushed = <<>>
    /\ pos = call.pos

\* C4 (amended): a synchronized call with a window shorter than
\* superframe_size leaves the parser state unchanged, emits nothing and
\* consumes nothing; it returns GST_FLOW_OK while the base class is draining
\* and the fatal GST_FLOW_ERROR otherwise.
C4_ShortWindowFatalUnlessDraining ==
  ShortWindow =>
    /\ call.ret = (IF call.draining THEN "GST_FLOW_OK" ELSE "GST_FLOW_ERROR")
    /\ dabplusparse = call.before
    /\ call.pushed = <<>>
    /\ call.flushed = 0
    /\ call.skipsize = 0
    /\ pos = call.pos

C4_Witness ==
  /\ ShortWindow
  /\ ~call.draining
  /\ call.ret = "GST_FLOW_ERROR"
  /\ call.size = call.before.superframe_size - 1

OnLongStream == Streams[stream] = LongStream

OnShortStream == Streams[stream] = ShortStream

NumAusAt(p) ==
  NumAusOf(Streams[stream].kinds[(p - Streams[stream].lead) \div Streams[stream].size + 1].flags)

\* C5 as stated: a stream of exactly ShortFrames (3) superframes of 600 bytes
\* followed by the end of the stream ends with the parser synchronized and
\* every superframe consumed.
C5_ThreeFramesParsed ==
  (OnShortStream /\ session \in {"eos", "stopped"}) =>
    (Synchronized /\ pos = Streams[stream].len)

\* C5 (amended): a stream of 600-byte superframes with constant flags that
\* is at least SUPERFRAME_MAX_SIZE + FIRECODE_LENGTH bytes long is
\* synchronized by the first call; every call that returns GST_FLOW_OK has
\* emitted exactly num_aus access units and consumed one superframe; only
\* the call on the first superframe negotiates; and when the stream ends
\* without an error every superframe has been consumed.  The stream of only
\* three superframes is never synchronized and nothing of it is emitted.
C5_EndToEnd ==
  /\ ((OnLongStream /\ session = "running") ~> (OnLongStream /\ Synchronized))
  /\ []((OnLongStream /\ WasCall) => Synchronized)
  /\ []((OnLongStream /\ WasCall /\ call.ret = "GST_FLOW_OK") =>
          (/\ Len(call.pushed) = NumAusAt(call.pos)
           /\ call.flushed = SmallSize
           /\ pos = call.pos + SmallSize))
  /\ []((OnLongStream /\ WasCall /\ call.negotiated) => call.pos = 0)
  /\ []((OnLongStream /\ session = "eos") => pos = Streams[stream].len)
  /\ [](OnShortStream => (~Synchronized /\ call.pushed = <<>> /\ pos = 0))

C5_Witness ==
  /\ OnLongStream
  /\ session = "eos"
  /\ pos = LongFrames * SmallSize
  /\ Len(call.pushed) = 2
  /\ ~call.negotiated

\* the call processed a superframe to the end
Processed == WasCall /\ call.ret = "GST_FLOW_OK" /\ call.flushed > 0

\* C6: a call that processes a superframe forwards exactly num_aus frames of
\* the decoded header, frame i being the bytes [au[i].start, au[i].start +
\* au[i].size) of the window, all inside the superframe's AU area, and the
\* frames are forwarded in ascending order of their start offsets.
C6_EmitsAllAusInOrder ==
  Processed =>
    /\ Len(call.parsed) = 1
    /\ Len(call.pushed) = call.parsed[1].num_aus
    /\ \A i \in 1..Len(call.pushed) :
         /\ call.pushed[i].start = call.parsed[1].au[i].start
         /\ call.pushed[i].size = call.parsed[1].au[i].size
         /\ call.pushed[i].size >= 0
    /\ \A i \in 1..(Len(call.pushed) - 1) :
         call.pushed[i].start + call.pushed[i].size + 2 = call.pushed[i + 1].start
    /\ \A i, j \in 1..Len(call.pushed) :
         i < j => call.pushed[i].start < call.pushed[j].start

C6_Witness ==
  /\ Processed
  /\ Len(call.pushed) = AllAus
  /\ call.pushed[AllAus].start > call.pushed[1].start

\* gst_dabplusparse_prepend_adts_headers failed on an access unit
EmitterFailed == WasCall /\ call.fail \in {"profile", "channels", "rate", "size"}

\* C7 as stated: when the emitter fails on an access unit the call returns a
\* fatal error and no access unit of the superframe has been forwarded.
C7_NothingForwardedOnFailure ==
  EmitterFailed => (call.ret = "GST_FLOW_ERROR" /\ call.pushed = <<>>)

\* C7 (amended): when the emitter fails on an access unit the call returns
\* the fatal GST_FLOW_ERROR and consumes nothing; the failing unit and the
\* units after it are not forwarded, the units before it have been
\* forwarded already (none when the profile, the channel count or the
\* sample rate is unsupported, which fails on the first unit).
C7_FailureStopsAtFailingAu ==
  EmitterFailed =>
    /\ call.ret = "GST_FLOW_ERROR"
    /\ call.flushed = 0
    /\ pos = call.pos
    /\ Len(call.pushed) < call.parsed[1].num_aus
    /\ \A i \in 1..Len(call.pushed) :
         /\ call.pushed[i].start = call.parsed[1].au[i].start
         /\ call.pushed[i].size + ADTS_HEADER_LENGTH < 16384
    /\ call.fail = "size" =>
         call.parsed[1].au[Len(call.pushed) + 1].size + ADTS_HEADER_LENGTH >= 16384
    /\ call.fail # "size" => call.pushed = <<>>

C7_Witness ==
  /\ EmitterFailed
  /\ call.fail = "size"
  /\ Len(call.pushed) = 1

\* the call decoded a superframe header
Decoded == WasCall /\ call.parsed # <<>>

\* C8: for a decoded superframe set_src_caps is called if and only if no
\* header has been decoded since the last start or reset, or one of
\* dac_rate, sbr_flag, aac_channel_mode, ps_flag, mpeg_surround_config
\* differs from the header decoded before; the guard word and the AU start
\* offsets play no part.
C8_NegotiatesIffParamsChange ==
  Decoded =>
    (call.negotiated <=>
       (\/ call.decoded_before = NoDecoded
        \/ call.decoded_before[1] # audio_params(call.parsed[1])))

C8_Witness ==
  /\ Decoded
  /\ ~call.negotiated
  /\ call.parsed[1].au # call.before.superframe_header.au
  /\ call.parsed[1].header_firecode # call.before.superframe_header.header_firecode

\* C9: set_src_caps proposes adts first and keeps it if the peer accepts
\* it; it proposes raw only after adts was refused and keeps it if
\* accepted; if both are refused the call returns GST_FLOW_NOT_LINKED and
\* emits no access unit.
C9_AdtsThenRaw ==
  (WasCall /\ call.negotiated) =>
    /\ Len(call.proposed) >= 1
    /\ call.proposed[1] = "adts"
    /\ call.peer.adts =>
         (call.proposed = << "adts" >>
            /\ dabplusparse.o_header_type = "DABPLUS_HEADER_ADTS")
    /\ ~call.peer.adts =>
         (call.proposed = << "adts", "raw" >>
            /\ (call.peer.raw => dabplusparse.o_header_type = "DABPLUS_HEADER_RAW"))
    /\ (~call.peer.adts /\ ~call.peer.raw) =>
         (/\ call.ret = "GST_FLOW_NOT_LINKED"
          /\ call.pushed = <<>>
          /\ call.flushed = 0)
    /\ \A i \in 1..Len(call.pushed) :
         (call.pushed[i].adts # <<>>) <=> call.peer.adts

C9_Witness ==
  /\ WasCall
  /\ call.negotiated
  /\ ~call.peer.adts
  /\ ~call.peer.raw
  /\ call.peer.set_caps
  /\ call.ret = "GST_FLOW_NOT_LINKED"

\* C10: a call that finds synchronization in a window of at least
\* SUPERFRAME_MAX_SIZE + FIRECODE_LENGTH bytes records a superframe_size of
\* at most SUPERFRAME_MAX_SIZE = 216 * 120 bytes.
C10_SizeWithinMaximum ==
  (Acquired /\ call.size >= SUPERFRAME_MAX_SIZE + FIRECODE_LENGTH) =>
    dabplusparse.superframe_size <= SUPERFRAME_MAX_SIZE

\* the call decoded a superframe header whose mpeg_surround_config is 3..7
DecodedReservedSurround ==
  /\ Decoded
  /\ call.parsed[1].mpeg_surround_config >= 3
  /\ call.parsed[1].mpeg_surround_config <= 7

\* C16 as stated: a superframe whose mpeg_surround_config is 3..7 is
\* rejected: the call ends in an error and no AU of it is emitted, with
\* ADTS output and with raw output alike.
C16_ReservedSurroundRejected ==
  DecodedReservedSurround => (call.ret # "GST_FLOW_OK" /\ call.pushed = <<>>)

\* C16 (amended): a superframe whose mpeg_surround_config is 3..7 resolves
\* to 0 channels.  With ADTS output it is rejected: the call ends in an
\* error (GST_FLOW_ERROR for the unsupported number of channels, unless the
\* negotiation has failed before) and no AU of it is emitted.  With raw
\* output it is not rejected: nothing fails for the number of channels, and
\* unless the negotiation, the copy of an AU or the push of one fails the
\* call returns GST_FLOW_OK with all num_aus AUs emitted.
C16_ReservedSurroundRejectedInAdts ==
  DecodedReservedSurround =>
    /\ dabplusparse.channels = 0
    /\ dabplusparse.o_header_type = "DABPLUS_HEADER_ADTS" =>
         /\ call.ret # "GST_FLOW_OK"
         /\ call.pushed = <<>>
         /\ call.fail \in {"channels", "set_src_caps"}
         /\ call.fail = "channels" => call.ret = "GST_FLOW_ERROR"
    /\ dabplusparse.o_header_type = "DABPLUS_HEADER_RAW" =>
         /\ call.fail \in {"", "push", "copy_region", "set_src_caps"}
         /\ call.fail = "" =>
              (call.ret = "GST_FLOW_OK" /\ Len(call.pushed) = call.parsed[1].num_aus)

C16_Witness ==
  /\ DecodedReservedSurround
  /\ dabplusparse.o_header_type = "DABPLUS_HEADER_RAW"
  /\ call.ret = "GST_FLOW_OK"
  /\ Len(call.pushed) = call.parsed[1].num_aus

\* C19: a call made in synchronized state that decodes and emits a
\* superframe consumes exactly superframe_size bytes and skips none, and
\* leaves the parser synchronized with superframe_size as it was;
\* superframe_size changes only when a call acquires synchronization (it
\* is set) and on a reset (it is cleared to 0).
C19_ConsumesOneSuperframe ==
  [][/\ (Synchronized /\ Processed') =>
          /\ call'.flushed = dabplusparse.superframe_size
          /\ call'.skipsize = 0
          /\ pos' = pos + dabplusparse.superframe_size
          /\ Synchronized'
          /\ dabplusparse'.superframe_size = dabplusparse.superframe_size
     /\ dabplusparse'.superframe_size # dabplusparse.superframe_size =>
          \/ /\ Acquired'
             /\ ~Synchronized
             /\ dabplusparse'.superframe_size >= SUPERFRAME_MIN_SIZE
          \/ /\ call'.op = "start" \/ call'.did_reset
             /\ dabplusparse'.superframe_size = 0
             /\ ~Synchronized']_vars

C19_Witness ==
  /\ Processed
  /\ WasSynchronized
  /\ Synchronized
  /\ call.flushed = SmallSize
  /\ dabplusparse.superframe_size = SmallSize
  /\ call.pos >= SmallSize

\* C20: between calls, once started: while unsynchronized superframe_size
\* is 0, object_type, sample_rate and channels are -1, the output header
\* type is undetermined and the minimum frame size asked of the base class
\* is 25931; while synchronized superframe_size is at least 120, the minimum
\* frame size equals superframe_size, object_type is 1 and sample_rate is
\* one of 16000, 24000, 32000, 48000.
C20_StateInvariant ==
  session \in {"running", "idle", "failed", "eos", "stopped"} =>
    /\ ~Synchronized =>
         /\ dabplusparse.superframe_size = 0
         /\ dabplusparse.object_type = -1
         /\ dabplusparse.sample_rate = -1
         /\ dabplusparse.channels = -1
         /\ dabplusparse.o_header_type = "DABPLUS_HEADER_NOT_PARSED"
         /\ dabplusparse.min_frame_size = 25931
    /\ Synchronized =>
         /\ dabplusparse.superframe_size >= 120
         /\ dabplusparse.min_frame_size = dabplusparse.superframe_size
         /\ dabplusparse.object_type = 1
         /\ dabplusparse.sample_rate \in {16000, 24000, 32000, 48000}

C20_Witness ==
  /\ session = "running"
  /\ WasCall
  /\ Synchronized
  /\ call.ret = "GST_FLOW_NOT_LINKED"
  /\ dabplusparse.sample_rate = 16000
  /\ dabplusparse.min_frame_size = SmallSize

\* the call was made in unsynchronized state
WasUnsynchronized == WasCall /\ ~WasSynchronized

\* C21: a call made in unsynchronized state with a window shorter than
\* SUPERFRAME_MAX_SIZE + FIRECODE_LENGTH does nothing: it returns
\* GST_FLOW_OK with nothing to skip, consumes and emits nothing, and leaves
\* every field of the element as it was, the minimum frame size asked of the
\* base class still being SUPERFRAME_MAX_SIZE + FIRECODE_LENGTH.
C21_ShortWindowUnsynchronized ==
  (WasUnsynchronized /\ call.size < SUPERFRAME_MAX_SIZE + FIRECODE_LENGTH) =>
    /\ call.ret = "GST_FLOW_OK"
    /\ call.skipsize = 0
    /\ call.flushed = 0
    /\ call.pushed = <<>>
    /\ ~call.negotiated
    /\ dabplusparse = call.before
    /\ dabplusparse.min_frame_size = SUPERFRAME_MAX_SIZE + FIRECODE_LENGTH

C21_Witness ==
  /\ WasUnsynchronized
  /\ call.size = SUPERFRAME_MIN_SIZE
  /\ call.pos \in Guards[stream]
  /\ call.ret = "GST_FLOW_OK"
  /\ ~Synchronized

\* the offsets of the call's window, from SUPERFRAME_MIN_SIZE on, that the
\* second scan reaches and that carry a valid guard
SecondGuards ==
  {g - call.pos : g \in {p \in Guards[stream] :
                           /\ p - call.pos >= SUPERFRAME_MIN_SIZE
                           /\ p - call.pos < call.size - FIRECODE_LENGTH}}

\* the call scanned a full window with a valid guard at offset 0 and
\* another one from offset 120 on
ScannedTwoGuards ==
  /\ WasUnsynchronized
  /\ call.size >= SUPERFRAME_MAX_SIZE + FIRECODE_LENGTH
  /\ call.pos \in Guards[stream]
  /\ SecondGuards # {}

SecondGuardDecides(k) ==
  IF k % SUPERFRAME_MIN_SIZE = 0
  THEN /\ Synchronized
       /\ dabplusparse.superframe_size = k
       /\ call.skipsize = 0
  ELSE /\ ~Synchronized
       /\ dabplusparse = call.before
       /\ call.flushed = 0

\* C22: for a window that starts at a valid guard and whose first valid
\* guard at or after offset 120 is at offset k, detect_stream succeeds with
\* superframe_size = k and nothing to skip if k is a multiple of 120, and
\* fails, the element staying unsynchronized, if k is not.
C22_FirstSecondGuardDecides ==
  ScannedTwoGuards => SecondGuardDecides(SetMin(SecondGuards))

C22_Witness ==
  /\ ScannedTwoGuards
  /\ SetMin(SecondGuards) % SUPERFRAME_MIN_SIZE # 0
  /\ (call.pos + SmallSize) \in Guards[stream]
  /\ ~Synchronized

\* the offsets of the call's window that the first scan reaches and that
\* carry a valid guard
FirstGuards ==
  {g - call.pos : g \in {p \in Guards[stream] :
                           /\ p >= call.pos
                           /\ p - call.pos < call.size - FIRECODE_LENGTH}}

\* the call scanned a full window that has no valid guard at offset 0
ScannedWithoutGuardAt0 ==
  /\ WasUnsynchronized
  /\ call.size >= SUPERFRAME_MAX_SIZE + FIRECODE_LENGTH
  /\ call.pos \notin Guards[stream]

\* C24: the first scan of a window of at least SUPERFRAME_MAX_SIZE +
\* FIRECODE_LENGTH bytes: if the smallest offset i below len - 11 with a
\* valid guard is greater than 0 the call reports nothing found and i bytes
\* to skip, if there is no such offset it reports len - 11 bytes to skip; no
\* skipped offset carries a valid guard and the element is left as it was.
C24_FirstScanSkips ==
  ScannedWithoutGuardAt0 =>
    /\ call.skipsize = (IF FirstGuards # {} THEN SetMin(FirstGuards)
                        ELSE call.size - FIRECODE_LENGTH)
    /\ \A g \in Guards[stream] : ~(g >= call.pos /\ g < call.pos + call.skipsize)
    /\ call.ret = "GST_FLOW_OK"
    /\ call.flushed = 0
    /\ call.pushed = <<>>
    /\ dabplusparse = call.before
    /\ ~Synchronized

C24_Witness ==
  /\ ScannedWithoutGuardAt0
  /\ FirstGuards = {}
  /\ call.skipsize = call.size - FIRECODE_LENGTH
  /\ call.pos > 0

C24_WitnessFound ==
  /\ ScannedWithoutGuardAt0
  /\ FirstGuards # {}
  /\ call.skipsize > 0

\* the offsets the second scan reaches that carry a valid guard and are a
\* multiple of 120
SecondGuardsAtMultiples == {k \in SecondGuards : k % SUPERFRAME_MIN_SIZE = 0}

\* C25: with a valid guard at offset 0, whenever some multiple k >= 120 of
\* 120 in the scanned range carries a valid guard the call reports the
\* stream found with the smallest such k as superframe_size, also when a
\* valid guard at an offset that is no multiple of 120 lies before k.
C25_SpuriousGuardPassedOver ==
  (ScannedTwoGuards /\ SecondGuardsAtMultiples # {}) =>
    /\ Synchronized
    /\ dabplusparse.superframe_size = SetMin(SecondGuardsAtMultiples)
    /\ call.skipsize = 0

\* the distances from the start of the call's window to the valid guards
\* that follow it
LaterGuards == {g - call.pos : g \in {p \in Guards[stream] : p > call.pos}}

\* the call scanned a window of exactly SUPERFRAME_MAX_SIZE +
\* FIRECODE_LENGTH bytes holding one superframe of a legal size and the
\* guard of the next one
ScannedOneLegalSuperframe ==
  /\ WasUnsynchronized
  /\ call.size = SUPERFRAME_MAX_SIZE + FIRECODE_LENGTH
  /\ call.pos \in Guards[stream]
  /\ LaterGuards # {}
  /\ SetMin(LaterGuards) % SUPERFRAME_MIN_SIZE = 0
  /\ SetMin(LaterGuards) <= SUPERFRAME_MAX_SIZE

\* C26: from a window of exactly 25931 bytes with valid guards at offsets 0
\* and k and none between, the call reports superframe_size = k for every
\* multiple k of 120 from 120 to 216 * 120, k = 25920 included.
C26_EveryLegalSizeDetected ==
  ScannedOneLegalSuperframe =>
    /\ Synchronized
    /\ dabplusparse.superframe_size = SetMin(LaterGuards)
    /\ call.skipsize = 0

\* the call scanned a full window
ScannedFullWindow ==
  /\ WasUnsynchronized
  /\ call.size >= SUPERFRAME_MAX_SIZE + FIRECODE_LENGTH

\* C27: a call made while unsynchronized with a window of at least
\* SUPERFRAME_MAX_SIZE + FIRECODE_LENGTH bytes either reports at least one
\* byte to skip, or finds synchronization and decodes and consumes the
\* superframe at offset 0 (superframe_size >= 120 bytes), or returns a status
\* other than GST_FLOW_OK; it never returns GST_FLOW_OK with nothing skipped
\* and nothing consumed.
C27_UnsynchronizedProgress ==
  ScannedFullWindow =>
    \/ /\ call.ret = "GST_FLOW_OK"
       /\ call.skipsize >= 1
       /\ call.flushed = 0
    \/ /\ call.ret = "GST_FLOW_OK"
       /\ call.skipsize = 0
       /\ Acquired
       /\ Decoded
       /\ call.flushed = dabplusparse.superframe_size
       /\ call.flushed >= SUPERFRAME_MIN_SIZE
    \/ call.ret \in {"GST_FLOW_ERROR", "GST_FLOW_NOT_LINKED", "GST_FLOW_FLUSHING"}

C27_Witness ==
  /\ ScannedFullWindow
  /\ call.pos \in Guards[stream]
  /\ SecondGuards = {}
  /\ call.ret = "GST_FLOW_OK"
  /\ call.skipsize >= SUPERFRAME_MIN_SIZE

\* the superframe_size the header of the call was decoded with
DecodedFrameSize ==
  IF WasSynchronized THEN call.before.superframe_size ELSE dabplusparse.superframe_size

\* C28: every access unit of a decoded superframe has a size that is not
\* negative (no wrap around of the unsigned subtraction) and ends at or
\* before superframe_size - (superframe_size / 120) * 10, whatever the start
\* fields of the header hold.
C28_AuRangesInsideSuperframe ==
  Decoded =>
    \A i \in 1..call.parsed[1].num_aus :
      /\ guint_is_below_2_31(call.parsed[1].au[i].size)
      /\ call.parsed[1].au[i].start + call.parsed[1].au[i].size
           <= aus_end_of(DecodedFrameSize)

\* the step is a call on the superframe whose negotiation failed in the call
\* before it, and it decodes that superframe again
RetriedAfterFailedNegotiation ==
  /\ WasCall
  /\ call.fail = "set_src_caps"
  /\ call'.op = "handle_frame"
  /\ call'.pos = call.pos
  /\ call'.parsed # <<>>

\* C29: when the negotiation for a changed header has failed and
\* handle_frame is called again on the same superframe, set_src_caps is
\* called again, so that access units are emitted only after a negotiation
\* for the audio parameters of their superframe that succeeded.
C29_FailedNegotiationRetried ==
  [][RetriedAfterFailedNegotiation => call'.negotiated]_vars

\* C30: every call of handle_frame releases the read mapping of the input
\* buffer that it acquired at entry, also the call of a synchronized element
\* with a window shorter than superframe_size.
C30_MappingReleased ==
  WasCall => call.unmapped

(***************************************************************************)
(* The functions of the element applied to arguments of their own.  input  *)
(* is drawn from the sets below; one step applies the function that        *)
(* input.op names and stores what it returned as the one element of        *)
(* output.  The streaming variables stay as they are after construction.   *)
(***************************************************************************)
Constructed ==
  /\ stream = 1
  /\ pos = 0
  /\ session = "idle"
  /\ dabplusparse = ResetState
  /\ srccaps = NoCaps
  /\ decoded = NoDecoded
  /\ call = NoCall("init")
  /\ tick = 0

Applied(op) == input.op = op /\ output # NoOutput

Returns(op, value) ==
  /\ input.op = op
  /\ output = NoOutput
  /\ output' = << value >>
  /\ UNCHANGED << stream, pos, session, dabplusparse, srccaps, decoded, call, tick, input >>

(***************************************************************************)
(* CRC-16 by long division, one bit at a time, most significant bit first, *)
(* register initially 0, no final XOR.                                     *)
(***************************************************************************)
FirecodePolynomial == 30767     \* 0x782F

Crc16Shift(reg) == (reg % 32768) * 2

RECURSIVE Crc16Byte(_, _, _)
Crc16Byte(reg, byte, n) ==
  IF n = 0 THEN reg
  ELSE IF reg \div 32768 # (byte \div (2 ^ (n - 1))) % 2
  THEN Crc16Byte(BitXor(Crc16Shift(reg), FirecodePolynomial), byte, n - 1)
  ELSE Crc16Byte(Crc16Shift(reg), byte, n - 1)

RECURSIVE Crc16(_, _, _)
Crc16(bytes, k, reg) ==
  IF k > Len(bytes) THEN reg
  ELSE Crc16(bytes, k + 1, Crc16Byte(reg, bytes[k], 8))

\* bytes 2..10 of the arguments of check_firecode: one non-zero byte at each
\* place, nothing but zeros, the generator polynomial itself (its CRC is
\* 0), and the bodies of generated headers
FirecodeByteValues == {1, 90, 128, 255}

FirecodeBodies ==
  { [k \in 1..(FIRECODE_LENGTH - 2) |-> IF k = p THEN v ELSE 0] :
      p \in 1..(FIRECODE_LENGTH - 2), v \in FirecodeByteValues }
  \cup { [k \in 1..(FIRECODE_LENGTH - 2) |-> 0] }
  \cup { << 0, 0, 0, 0, 0, 0, 1, 120, 47 >> }
  \cup { BodyOf(f, StartsOf(K(f), SmallSize)) : f \in {0, 32, 64, 96} }

\* the stored guard: the CRC, the CRC with one bit flipped, and zero
StoredGuards(crc) == {crc, BitXor(crc, 1), BitXor(crc, 32768), 0}

FirecodeInputs ==
  UNION { { [op |-> "check_firecode", data |-> WithGuard(body, guard)] :
              guard \in StoredGuards(Crc16(body, 1, 0)) } :
          body \in FirecodeBodies }

CheckFirecode == Returns("check_firecode", check_firecode(input.data))

StoredGuard(data) == data[1] * 256 + data[2]

GuardedBytes(data) == SubSeq(data, 3, FIRECODE_LENGTH)

GuardMatches(stored, crc) == stored = crc /\ crc # 0

\* C11: check_firecode returns TRUE for eleven bytes exactly when the 16-bit
\* big-endian value of bytes 0..1 equals the CRC-16 (polynomial 0x782F,
\* initial value 0, most significant bit first, no final XOR) of bytes 2..10
\* and that CRC is not zero; eleven zero bytes are rejected.
C11_FirecodeIsCrc16 ==
  Applied("check_firecode") =>
    output[1] = GuardMatches(StoredGuard(input.data),
                             Crc16(GuardedBytes(input.data), 1, 0))

C11_Witness ==
  /\ Applied("check_firecode")
  /\ output[1]
  /\ input.data[3] = 96

(***************************************************************************)
(* Arguments of parse_superframe_header: generated headers with every      *)
(* value of the flags byte and several frame sizes, generated headers with *)
(* narrower and with descending AU start addresses, and headers whose      *)
(* bytes 3..10 hold one non-zero byte or one repeated value.               *)
(***************************************************************************)
HeaderFrameSizes ==
  {SUPERFRAME_MIN_SIZE, SmallSize, SmallSize + SUPERFRAME_MIN_SIZE \div 2, SUPERFRAME_MAX_SIZE}

HeaderByteRows ==
  { [k \in 1..8 |-> IF k = p THEN v ELSE 0] : p \in 1..8, v \in FirecodeByteValues }
  \cup { [k \in 1..8 |-> v] : v \in {0, 15, 165, 240, 255} }

HeaderInputs ==
  { [op |-> "parse_superframe_header", data |-> HeaderOf(K(f), S), framesize |-> S] :
      f \in 0..255, S \in HeaderFrameSizes }
  \cup { [op |-> "parse_superframe_header", data |-> HeaderOf(kind, S), framesize |-> S] :
           kind \in {Kalt(0), Kalt(32), Kalt(64), Kalt(96),
                     Kdesc(0), Kdesc(32), Kdesc(64), Kdesc(96)},
           S \in HeaderFrameSizes }
  \cup { [op |-> "parse_superframe_header", data |-> << 0, 0, f >> \o row,
          framesize |-> SmallSize] :
           f \in {0, 32, 64, 96}, row \in HeaderByteRows }

ParseSuperframeHeader ==
  Returns("parse_superframe_header", parse_superframe_header(input.data, input.framesize))

\* bit n of a byte
BitOf(byte, n) == (byte \div (2 ^ n)) % 2

\* << num_aus, au[0].start >> by sbr_flag and dac_rate
AuTable(sbr, dac) ==
  CASE sbr = 1 /\ dac = 0 -> << 2, 5 >>
    [] sbr = 1 /\ dac = 1 -> << 3, 6 >>
    [] sbr = 0 /\ dac = 0 -> << 4, 8 >>
    [] sbr = 0 /\ dac = 1 -> << 6, 11 >>

HeaderFollowsTable(hdr, row) ==
  /\ hdr.num_aus = row[1]
  /\ hdr.au[1].start = row[2]
  /\ hdr.num_aus \in {2, 3, 4, 6}

\* C12: parse_superframe_header never fails; with sbr_flag bit 5 and
\* dac_rate bit 6 of byte 2, (sbr, dac) = (1,0) gives num_aus 2 and
\* au[0].start 5, (1,1) gives 3 and 6, (0,0) gives 4 and 8, (0,1) gives 6
\* and 11, so num_aus is always one of 2, 3, 4, 6.
C12_HeaderDecodeNeverFails ==
  Applied("parse_superframe_header") =>
    /\ output[1].ok
    /\ HeaderFollowsTable(output[1].hdr,
                          AuTable(BitOf(input.data[3], 5), BitOf(input.data[3], 6)))

C12_Witness ==
  /\ Applied("parse_superframe_header")
  /\ output[1].ok
  /\ input.data[3] = 255
  /\ output[1].hdr.num_aus = 3

\* the AU start addresses rise in steps of at least 2 and the last one is
\* at least 2 below the end of the AUs
WellFormed(hdr, framesize) ==
  /\ \A k \in 1..(hdr.num_aus - 1) : hdr.au[k + 1].start - hdr.au[k].start >= 2
  /\ (framesize - (framesize \div 120) * 10) - hdr.au[hdr.num_aus].start >= 2

RECURSIVE SumOfSizes(_, _)
SumOfSizes(au, k) == IF k = 0 THEN 0 ELSE au[k].size + SumOfSizes(au, k - 1)

\* the AU sizes, the 2 bytes after each AU and the parity bytes
AusAndParity(hdr, framesize) ==
  SumOfSizes(hdr.au, hdr.num_aus) + 2 * hdr.num_aus + (framesize \div 120) * 10

\* C13 as stated: for every well-formed header the AU sizes plus
\* 2 * num_aus plus floor(frame_size / 120) * 10 equal the frame size.
C13_SizesFillFrame ==
  (Applied("parse_superframe_header") /\ WellFormed(output[1].hdr, input.framesize)) =>
    AusAndParity(output[1].hdr, input.framesize) = input.framesize

\* C13: for every well-formed header the AU sizes plus 2 * num_aus plus
\* floor(frame_size / 120) * 10 plus au[0].start, the length of the header
\* before the first AU, equal the frame size.
C13_SizesAndHeaderFillFrame ==
  (Applied("parse_superframe_header") /\ WellFormed(output[1].hdr, input.framesize)) =>
    AusAndParity(output[1].hdr, input.framesize) + output[1].hdr.au[1].start
      = input.framesize

C13_Witness ==
  /\ Applied("parse_superframe_header")
  /\ WellFormed(output[1].hdr, input.framesize)
  /\ output[1].hdr.num_aus = 6
  /\ input.framesize = SUPERFRAME_MAX_SIZE

\* au[k].start for k in 1..5 by arithmetic on bytes 3..10
StartFromBytes(data, k) ==
  CASE k = 1 -> data[4] * 16 + data[5] \div 16
    [] k = 2 -> (data[5] % 16) * 256 + data[6]
    [] k = 3 -> data[7] * 16 + data[8] \div 16
    [] k = 4 -> (data[8] % 16) * 256 + data[9]
    [] k = 5 -> data[10] * 16 + data[11] \div 16

StartsDecoded(hdr, data) ==
  \A k \in 1..(hdr.num_aus - 1) :
    /\ hdr.au[k + 1].start = StartFromBytes(data, k)
    /\ hdr.au[k + 1].start < 4096

SizesDecoded(hdr, framesize) ==
  /\ \A k \in 1..(hdr.num_aus - 1) :
       hdr.au[k].size = hdr.au[k + 1].start - hdr.au[k].start - 2
  /\ hdr.au[hdr.num_aus].size =
       (framesize - (framesize \div 120) * 10) - hdr.au[hdr.num_aus].start - 2

\* C14: au[1].start = byte3 << 4 | byte4 >> 4, au[2].start = (byte4 & 0xF)
\* << 8 | byte5, au[3].start = byte6 << 4 | byte7 >> 4, au[4].start = (byte7
\* & 0xF) << 8 | byte8, au[5].start = byte9 << 4 | byte10 >> 4, for the
\* indices below num_aus, each below 4096; au[i].size = au[i+1].start -
\* au[i].start - 2 for i < num_aus - 1 and au[num_aus-1].size = (frame_size
\* - floor(frame_size / 120) * 10) - au[num_aus-1].start - 2, as guint.
C14_OffsetsAndSizesDecoded ==
  Applied("parse_superframe_header") =>
    /\ StartsDecoded(output[1].hdr, input.data)
    /\ SizesDecoded(output[1].hdr, input.framesize)

C14_Witness ==
  /\ Applied("parse_superframe_header")
  /\ input.data[3] = 64
  /\ input.data[4] = 165
  /\ output[1].hdr.au[5].start = 1445
  /\ output[1].hdr.au[6].size < 0

(***************************************************************************)
(* Arguments of the parameter resolution in handle_frame: the header       *)
(* decoded from a generated superframe, for every value of the flags byte. *)
(***************************************************************************)
ResolveInputs ==
  { [op |-> "resolve_audio_params",
     hdr |-> parse_superframe_header(HeaderOf(K(f), SmallSize), SmallSize).hdr] :
      f \in 0..255 }

ResolveAudioParams ==
  Returns("resolve_audio_params", resolve_audio_params(ResetState, input.hdr))

SampleRateOf(dac_rate, sbr_flag) ==
  CASE dac_rate = 1 /\ sbr_flag = 0 -> 48000
    [] dac_rate = 1 /\ sbr_flag = 1 -> 24000
    [] dac_rate = 0 /\ sbr_flag = 0 -> 32000
    [] dac_rate = 0 /\ sbr_flag = 1 -> 16000

\* C15: the resolved object_type is always 1; sample_rate is 48000 for
\* dac_rate 1 and sbr_flag 0, 24000 for 1 and 1, 32000 for 0 and 0, 16000
\* for 0 and 1; channel_count is aac_channel_mode + 1 when
\* mpeg_surround_config is 0, 6 when it is 1 and 8 when it is 2.
C15_ParametersResolved ==
  Applied("resolve_audio_params") =>
    /\ output[1].object_type = 1
    /\ output[1].sample_rate = SampleRateOf(input.hdr.dac_rate, input.hdr.sbr_flag)
    /\ input.hdr.mpeg_surround_config = 0 =>
         output[1].channels = input.hdr.aac_channel_mode + 1
    /\ input.hdr.mpeg_surround_config = 1 => output[1].channels = 6
    /\ input.hdr.mpeg_surround_config = 2 => output[1].channels = 8

C15_Witness ==
  /\ Applied("resolve_audio_params")
  /\ input.hdr.mpeg_surround_config = 2
  /\ input.hdr.sbr_flag = 1
  /\ input.hdr.dac_rate = 1
  /\ output[1].channels = 8
  /\ output[1].sample_rate = 24000

(***************************************************************************)
(* Arguments of prepend_adts_headers: the element with each sample rate    *)
(* and number of channels of the two lookup tables, caps with each of the  *)
(* four profiles, and an AU of each of the sizes PayloadSizes.  The        *)
(* profile 0..3, the sampling frequency index 0..12 and the channel        *)
(* configuration 1..7 are the places in the three sequences, counted from  *)
(* 0, 0 and 1.                                                             *)
(***************************************************************************)
ProfileNames == << "main", "lc", "ssr", "ltp" >>

SampleRates ==
  << 96000, 88200, 64000, 48000, 44100, 32000, 24000, 22050, 16000, 12000, 11025,
     8000, 7350 >>

ChannelCounts == << 1, 2, 3, 4, 5, 6, 8 >>

PayloadSizes == {0, 1, 100, 2041, 16376, 16377}

AdtsInputs ==
  { [op |-> "prepend_adts_headers",
     self |-> [ResetState EXCEPT !.sample_rate = SampleRates[s + 1],
                                 !.channels = ChannelCounts[c]],
     caps |-> [NoCaps EXCEPT !.profile = ProfileNames[p + 1]],
     buf_size |-> n,
     profile |-> p, sampling_frequency_index |-> s, channel_configuration |-> c] :
      p \in 0..3, s \in 0..12, c \in 1..7, n \in PayloadSizes }

PrependAdtsHeaders ==
  Returns("prepend_adts_headers",
          prepend_adts_headers(input.self, input.caps, input.buf_size))

\* the seven bytes by arithmetic; in byte 2 the bit of value 4 is set by an
\* odd sampling frequency index and by a channel configuration of 4 or more
AdtsBytes(profile, sf_index, chan_cfg, frame_size) ==
  << 255,
     241,
     profile * 64 + (sf_index \div 2) * 8
       + (IF sf_index % 2 = 1 \/ chan_cfg >= 4 THEN 4 ELSE 0) + 2,
     (chan_cfg % 4) * 64 + 48 + frame_size \div 2048,
     (frame_size \div 8) % 256,
     (frame_size % 8) * 32 + 31,
     252 >>

\* C17: for profile 0..3, sampling frequency index 0..12, channel
\* configuration 1..7 and frame_size = payload + 7 below 0x4000 the header
\* that prepend_adts_headers writes is 0xFF, 0xF1, (profile << 6) | (sf_index
\* << 2) | 0x2 | (chan_cfg & 0x4), ((chan_cfg & 0x3) << 6) | 0x30 |
\* (frame_size >> 11), (frame_size >> 3) & 0xFF, ((frame_size & 0x7) << 5) |
\* 0x1F, 0xFC; for profile 1, index 3, configuration 2 and a payload of 100
\* bytes it is FF F1 4E B0 0D 7F FC.
C17_AdtsHeaderBytes ==
  (Applied("prepend_adts_headers") /\ input.buf_size + 7 < 16384) =>
    /\ output[1].ok
    /\ output[1].header = AdtsBytes(input.profile, input.sampling_frequency_index,
                                    input.channel_configuration, input.buf_size + 7)
    /\ (/\ input.profile = 1
        /\ input.sampling_frequency_index = 3
        /\ input.channel_configuration = 2
        /\ input.buf_size = 100) =>
         output[1].header = << 255, 241, 78, 176, 13, 127, 252 >>

C17_Witness ==
  /\ Applied("prepend_adts_headers")
  /\ input.profile = 1
  /\ input.sampling_frequency_index = 3
  /\ input.channel_configuration = 2
  /\ input.buf_size = 100
  /\ output[1].header = << 255, 241, 78, 176, 13, 127, 252 >>

(***************************************************************************)
(* Arguments of the body of the emission loop for the last AU of a         *)
(* superframe of LargeFrames * 120 bytes with two AUs, the second one      *)
(* starting at one of LastAuStarts: 16376 to 16378 bytes for the starts    *)
(* 122 to 120.  The element has negotiated ADTS or raw output and 2 or 0   *)
(* channels; no AU has been pushed yet and every push is accepted.         *)
(***************************************************************************)
LargeFrames == 150

LastAuStarts == {120, 121, 122, 2000}

EmitInputs ==
  { [op |-> "emit_au",
     self |-> [ResetState EXCEPT !.object_type = 1, !.sample_rate = 16000,
                                 !.channels = ch, !.o_header_type = t],
     caps |-> [NoCaps EXCEPT !.profile = "lc"],
     hdr |-> parse_superframe_header(
               WithGuard(BodyOf(48, [k \in 1..6 |-> IF k = 2 THEN st ELSE 0]), 0),
               LargeFrames * SUPERFRAME_MIN_SIZE).hdr,
     bufsize |-> LargeFrames * SUPERFRAME_MIN_SIZE] :
      st \in LastAuStarts, ch \in {0, 2},
      t \in {"DABPLUS_HEADER_ADTS", "DABPLUS_HEADER_RAW"} }

EmitAu ==
  Returns("emit_au",
          emit_au(input.self, input.caps, input.hdr, input.bufsize, AllAus,
                  input.hdr.num_aus - 1, <<>>, input.hdr.au[input.hdr.num_aus]))

\* the AU was given to prepend_adts_headers with parameters it supports
AdtsSupported ==
  /\ Applied("emit_au")
  /\ input.self.o_header_type = "DABPLUS_HEADER_ADTS"
  /\ input.self.channels = 2

\* C18: with ADTS output and supported parameters the header synthesis
\* fails for a frame that is too large exactly when payload + 7 >= 0x4000 (a
\* payload of 16376 bytes succeeds, one of 16377 fails); on that failure no
\* header is prepended and the AU is not forwarded.
C18_FrameTooLarge ==
  AdtsSupported =>
    /\ (output[1].fail = "size") = (input.hdr.au[input.hdr.num_aus].size + 7 >= 16384)
    /\ input.hdr.au[input.hdr.num_aus].size = 16376 => output[1].fail = ""
    /\ input.hdr.au[input.hdr.num_aus].size = 16377 => output[1].fail = "size"
    /\ output[1].fail = "size" =>
         (output[1].ret = "GST_FLOW_ERROR" /\ output[1].pushed = <<>>)
    /\ output[1].fail # "size" =>
         /\ Len(output[1].pushed) = 1
         /\ Len(output[1].pushed[1].adts) = ADTS_HEADER_LENGTH
         /\ output[1].pushed[1].size = input.hdr.au[input.hdr.num_aus].size

C18_Witness ==
  /\ AdtsSupported
  /\ input.hdr.au[input.hdr.num_aus].size = 16377
  /\ output[1].fail = "size"
  /\ output[1].pushed = <<>>

(***************************************************************************)
(* Arguments of check_firecode for single-bit errors: eleven bytes with    *)
(* the guard that the element computes for bytes 2..10, and the number     *)
(* 0..71 of the bit of bytes 2..10 to flip.  The function is applied to    *)
(* the bytes as they are and with that bit flipped.                        *)
(***************************************************************************)
GuardedBits == 8 * (FIRECODE_LENGTH - 2)

FlipInputs ==
  { [op |-> "check_firecode_flipped", data |-> WithGuard(body, GuardOf(body, "ok")),
     bit |-> b] :
      body \in FirecodeBodies, b \in 0..(GuardedBits - 1) }

FlippedByte(byte, v) == IF (byte \div v) % 2 = 1 THEN byte - v ELSE byte + v

FlippedData(data, b) ==
  [k \in 1..FIRECODE_LENGTH |->
     IF k = 3 + b \div 8 THEN FlippedByte(data[k], 2 ^ (7 - (b % 8))) ELSE data[k]]

CheckFirecodeFlipped ==
  Returns("check_firecode_flipped",
          [accepted |-> check_firecode(input.data),
           flipped |-> check_firecode(FlippedData(input.data, input.bit))])

\* C23: for eleven bytes that check_firecode accepts, flipping any single
\* one of the 72 bits of bytes 2..10 gives eleven bytes that it rejects.
C23_SingleBitErrorDetected ==
  (Applied("check_firecode_flipped") /\ output[1].accepted) => ~output[1].flipped

C23_Witness ==
  /\ Applied("check_firecode_flipped")
  /\ output[1].accepted
  /\ ~output[1].flipped
  /\ input.bit = GuardedBits - 1
  /\ input.data[3] = 96

(***************************************************************************)
(* Arguments of two calls of prepend_adts_headers, to compare the headers  *)
(* of two access units: the element with each sample rate and number of    *)
(* channels of the two lookup tables, caps with the first and the last     *)
(* profile, and a payload of 0 or 2041 bytes (frame_size 7 or 0x800).      *)
(* The two calls get different arguments.                                  *)
(***************************************************************************)
PairProfiles == {0, 3}

PairPayloadSizes == {0, 2041}

AdtsArguments ==
  { [self |-> [ResetState EXCEPT !.sample_rate = SampleRates[s + 1],
                                 !.channels = ChannelCounts[c]],
     caps |-> [NoCaps EXCEPT !.profile = ProfileNames[p + 1]],
     buf_size |-> n,
     profile |-> p, sampling_frequency_index |-> s, channel_configuration |-> c] :
      p \in PairProfiles, s \in 0..12, c \in 1..7, n \in PairPayloadSizes }

\* the place of the arguments a in an enumeration of AdtsArguments
AdtsArgumentsPlace(a) ==
  ((a.profile * 13 + a.sampling_frequency_index) * 8 + a.channel_configuration) * 16384
    + a.buf_size

\* every two different arguments, once
AdtsPairInputs ==
  { [op |-> "prepend_adts_headers_twice", first |-> ab[1], second |-> ab[2]] :
      ab \in { p \in AdtsArguments \X AdtsArguments :
                 AdtsArgumentsPlace(p[1]) < AdtsArgumentsPlace(p[2]) } }

PrependAdtsHeadersTwice ==
  Returns("prepend_adts_headers_twice",
          [first |-> prepend_adts_headers(input.first.self, input.first.caps,
                                          input.first.buf_size),
           second |-> prepend_adts_headers(input.second.self, input.second.caps,
                                           input.second.buf_size)])

\* C31: two different tuples (profile, sampling frequency index, channel
\* configuration, frame_size) with profile 0..3, index 0..12, configuration
\* 1..7 and frame_size 7..0x3FFF never give the same seven header bytes.
C31_HeaderInjective ==
  (/\ Applied("prepend_adts_headers_twice")
   /\ output[1].first.ok
   /\ output[1].second.ok
   /\ input.first # input.second) =>
    output[1].first.header # output[1].second.header

FunctionInputs ==
  FirecodeInputs \cup HeaderInputs \cup ResolveInputs \cup AdtsInputs \cup EmitInputs
  \cup FlipInputs \cup AdtsPairInputs

InitFunctions ==
  /\ Constructed
  /\ input \in FunctionInputs
  /\ output = NoOutput

FunctionNext ==
  \/ CheckFirecode
  \/ ParseSuperframeHeader
  \/ ResolveAudioParams
  \/ PrependAdtsHeaders
  \/ EmitAu
  \/ CheckFirecodeFlipped
  \/ PrependAdtsHeadersTwice

FunctionSpec == InitFunctions /\ [][FunctionNext]_vars

====
